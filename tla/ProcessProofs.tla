--------------------------- MODULE ProcessProofs ---------------------------
(***************************************************************************)
(* What TLC checks of the parts of one process (MCProcess), for any        *)
(* requests, works, devices, connections and bounds: a shutdown that       *)
(* leaves the process alive leaves nothing running in it but handlers      *)
(* whose clients had gone; the bridge                                      *)
(* answers from the mux process that is alive; a connection to a device is *)
(* used by one at a time and never after it was closed; the files of the   *)
(* artifact library are those its registry holds, also after a restart;    *)
(* and the monitor has heard the last word of every device.                *)
(***************************************************************************)
EXTENDS MCProcess, FiniteSetTheorems, TLAPS

----------------------------------------------------------------------------
(* The shutdown.  NothingOutlivesStores is about the end; that it holds is *)
(* decided at different moments before.  No request is cut before the      *)
(* server was closed, so a close that was heard to be drained left none.   *)
(* No work can begin any more once the last drain resolved in a process    *)
(* without requests and runs; a handler whose client had gone may begin    *)
(* some, and is excepted.                                                  *)

(* The drains and the close of the server happen in their stages.          *)
StagesInOrder ==
  /\ shutdown = "serving" => asked = {}
  /\ "last" \in asked \/ heard["server"] # "none" => shutdown \in {"last", "over", "exited"}
  /\ \A r \in HttpRequests : request[r] = "cut" => shutdown \in {"last", "over", "exited"}
  /\ closed => shutdown \in {"over", "exited"}

(* What the shutdown heard is still true.                                  *)
HeardIsTrue ==
  /\ heard["jobs"] = "drained" => runs = {}
  /\ heard["server"] = "drained" => Served \subseteq orphans
  /\ heard["jobs"] = "drained" /\ heard["server"] = "drained" /\ "last" \in settled /\ orphans = {}
       => Running = {}

(* It ends well only if it heard that everything was drained.              *)
OverIsDrained == shutdown = "over" => AllDrained /\ "last" \in settled

ShutdownIInv == ShutdownTypeOK /\ StagesInOrder /\ HeardIsTrue /\ OverIsDrained

(* The initial state satisfies it.                                         *)
LEMMA ShutdownInitIInv == ShutdownInit => ShutdownIInv
  <1> SUFFICES ASSUME ShutdownInit PROVE ShutdownIInv
    OBVIOUS
  <1>1. ShutdownTypeOK
    BY DEF ShutdownInit, ShutdownTypeOK, ShutdownStages
  <1>2. StagesInOrder /\ HeardIsTrue /\ OverIsDrained
    BY DEF ShutdownInit, StagesInOrder, HeardIsTrue, OverIsDrained, Questions
  <1> QED
    BY <1>1, <1>2 DEF ShutdownIInv

(* A drain resolves only when nothing is tracked.                          *)
LEMMA WorkSettledLemma ==
  ASSUME NEW drains, NEW now, settled \subseteq drains
  PROVE  /\ WorkSettled(drains, now) \subseteq drains
         /\ settled \subseteq WorkSettled(drains, now)
         /\ \A d \in WorkSettled(drains, now) \ settled : \A w \in Works : now[w] # "running"
  BY DEF WorkSettled

(* Every step preserves it.                                                *)
LEMMA ShutdownNextIInv == ShutdownIInv /\ [ShutdownNext]_shutdownVars => ShutdownIInv'
  <1> SUFFICES ASSUME ShutdownIInv, [ShutdownNext]_shutdownVars PROVE ShutdownIInv'
    OBVIOUS
  <1> USE DEF ShutdownIInv
  <1>0. /\ work \in [Works -> {"idle", "running", "over"}]
        /\ request \in [HttpRequests -> {"idle", "open", "left", "cut", "over"}]
        /\ orphans \subseteq HttpRequests
        /\ runs \subseteq Runs /\ shutdown \in ShutdownStages
        /\ asked \subseteq Drains /\ settled \subseteq asked
        /\ heard \in [Questions -> {"none", "drained", "late"}] /\ closed \in BOOLEAN
    BY DEF ShutdownTypeOK
  <1>1. ASSUME NEW w \in Works, BeginWork(w) PROVE ShutdownIInv'
    <2>1. ShutdownTypeOK'
      BY <1>0, <1>1 DEF BeginWork, ShutdownTypeOK
    <2>2. StagesInOrder' /\ OverIsDrained'
      BY <1>1 DEF BeginWork, StagesInOrder, OverIsDrained, AllDrained
    <2>3. HeardIsTrue'
      BY <1>0, <1>1 DEF BeginWork, HeardIsTrue, StagesInOrder, Served, Running
    <2> QED
      BY <2>1, <2>2, <2>3
  <1>2. ASSUME NEW w \in Works, EndWork(w) PROVE ShutdownIInv'
    <2>1. /\ settled' = WorkSettled(asked, work')
          /\ UNCHANGED <<request, orphans, runs, shutdown, asked, heard, closed>>
          /\ work[w] = "running"
      BY <1>2 DEF EndWork
    <2>2. work' \in [Works -> {"idle", "running", "over"}]
      BY <1>0, <1>2 DEF EndWork
    <2>3. ShutdownTypeOK'
      BY <1>0, <2>1, <2>2, WorkSettledLemma DEF ShutdownTypeOK
    <2>4. StagesInOrder' /\ OverIsDrained'
      BY <1>0, <2>1, WorkSettledLemma DEF StagesInOrder, OverIsDrained, AllDrained
    <2>5. HeardIsTrue'
      BY <1>0, <2>1, WorkSettledLemma DEF HeardIsTrue, Served, Running
    <2> QED
      BY <2>3, <2>4, <2>5
  <1>3. ASSUME NEW r \in HttpRequests, OpenRequest(r) PROVE ShutdownIInv'
    <2>1. ShutdownTypeOK'
      BY <1>0, <1>3 DEF OpenRequest, ShutdownTypeOK
    <2>2. StagesInOrder' /\ OverIsDrained'
      BY <1>0, <1>3 DEF OpenRequest, StagesInOrder, OverIsDrained, AllDrained
    <2>3. heard["server"] = "none"
      BY <1>3 DEF OpenRequest, StagesInOrder
    <2>4. HeardIsTrue'
      BY <1>3, <2>3 DEF OpenRequest, HeardIsTrue
    <2> QED
      BY <2>1, <2>2, <2>4
  <1>4. ASSUME NEW r \in HttpRequests, EndRequest(r) \/ ClientLeaves(r) PROVE ShutdownIInv'
    <2>1. /\ r \in Served /\ request' \in {[request EXCEPT ![r] = "over"], [request EXCEPT ![r] = "left"]}
          /\ UNCHANGED <<work, orphans, runs, shutdown, asked, settled, heard, closed>>
      BY <1>4 DEF EndRequest, ClientLeaves, Served, Serving
    <2>2. ShutdownTypeOK'
      BY <1>0, <2>1 DEF ShutdownTypeOK
    <2>3. StagesInOrder' /\ OverIsDrained'
      BY <1>0, <2>1 DEF StagesInOrder, OverIsDrained, AllDrained
    <2>4. Served' \subseteq Served
      BY <1>0, <2>1 DEF Served
    <2>5. HeardIsTrue'
      BY <2>1, <2>4 DEF HeardIsTrue, Running
    <2> QED
      BY <2>2, <2>3, <2>5
  <1>5. ASSUME NEW j \in Runs, EndRun(j) PROVE ShutdownIInv'
    <2>1. ShutdownTypeOK'
      BY <1>0, <1>5 DEF EndRun, ShutdownTypeOK
    <2>2. StagesInOrder' /\ OverIsDrained' /\ HeardIsTrue'
      BY <1>5 DEF EndRun, StagesInOrder, OverIsDrained, AllDrained, HeardIsTrue, Served, Running
    <2> QED
      BY <2>1, <2>2
  <1>6. CASE BeginShutdown
    <2>1. /\ asked' = {"first"} /\ settled' = WorkSettled({"first"}, work') /\ shutdown' = "draining"
          /\ UNCHANGED <<request, orphans, runs, heard, closed>>
          /\ shutdown = "serving"
      BY <1>6 DEF BeginShutdown
    <2>2. asked = {} /\ settled = {} /\ heard["server"] = "none"
      BY <1>0, <2>1 DEF StagesInOrder
    <2>3. work' \in [Works -> {"idle", "running", "over"}]
      BY <1>0, <1>6 DEF BeginShutdown
    <2>4. ShutdownTypeOK'
      BY <1>0, <2>1, <2>2, <2>3, WorkSettledLemma DEF ShutdownTypeOK, ShutdownStages, Drains
    <2>5. StagesInOrder' /\ OverIsDrained' /\ HeardIsTrue'
      BY <2>1, <2>2 DEF StagesInOrder, OverIsDrained, HeardIsTrue
    <2> QED
      BY <2>4, <2>5
  <1>7. CASE AnswerFirst
    <2>1. shutdown = "draining" /\ UNCHANGED <<work, request, orphans, runs, shutdown, asked, settled, closed>>
      BY <1>7 DEF AnswerFirst
    <2>2. PICK q \in {"jobs", "first", "rust"}, answer \in {"drained", "late"} :
            /\ heard' = [heard EXCEPT ![q] = answer]
            /\ q = "jobs" /\ answer = "drained" => runs = {}
      BY <1>7 DEF AnswerFirst, Heard
    <2>3. ShutdownTypeOK'
      BY <1>0, <2>1, <2>2 DEF ShutdownTypeOK, Questions
    <2>4. heard'["server"] = "none" /\ "last" \notin settled
      BY <1>0, <2>1, <2>2 DEF StagesInOrder, Questions
    <2>5. StagesInOrder' /\ OverIsDrained'
      BY <2>1, <2>4 DEF StagesInOrder, OverIsDrained
    <2>6. HeardIsTrue'
      BY <1>0, <2>1, <2>2, <2>4 DEF HeardIsTrue, Questions
    <2> QED
      BY <2>3, <2>5, <2>6
  <1>8. CASE BeginFinalDrain
    <2>1. /\ asked' = asked \cup {"final"} /\ settled' = WorkSettled(asked', work)
          /\ shutdown = "draining" /\ shutdown' = "settling"
          /\ UNCHANGED <<work, request, orphans, runs, heard, closed>>
      BY <1>8 DEF BeginFinalDrain
    <2>2. ShutdownTypeOK'
      BY <1>0, <2>1, WorkSettledLemma DEF ShutdownTypeOK, ShutdownStages, Drains
    <2>3. StagesInOrder' /\ OverIsDrained' /\ HeardIsTrue'
      BY <2>1 DEF StagesInOrder, OverIsDrained, HeardIsTrue, Served
    <2> QED
      BY <2>2, <2>3
  <1>9. CASE CloseServer
    <2>1. /\ shutdown = "settling" /\ shutdown' = "closing"
          /\ UNCHANGED <<work, request, orphans, runs, asked, settled, closed>>
      BY <1>9 DEF CloseServer
    <2>2. PICK answer \in {"drained", "late"} : heard' = [heard EXCEPT !["final"] = answer]
      BY <1>9 DEF CloseServer, Heard
    <2>3. ShutdownTypeOK'
      BY <1>0, <2>1, <2>2 DEF ShutdownTypeOK, ShutdownStages, Questions
    <2>4. \A q \in {"jobs", "server"} : heard'[q] = heard[q]
      BY <1>0, <2>2 DEF Questions
    <2>5. StagesInOrder' /\ OverIsDrained' /\ HeardIsTrue'
      BY <2>1, <2>4 DEF StagesInOrder, OverIsDrained, HeardIsTrue, Served, Running
    <2> QED
      BY <2>3, <2>5
  <1>10. CASE BeginLastDrain
    <2>1. /\ shutdown = "closing" /\ shutdown' = "last"
          /\ request' = [r \in HttpRequests |-> IF request[r] = "open" THEN "cut" ELSE request[r]]
          /\ orphans' = {r \in HttpRequests : request[r] = "left"}
          /\ asked' = asked \cup {"last"} /\ settled' = WorkSettled(asked', work)
          /\ UNCHANGED <<work, runs, closed>>
      BY <1>10 DEF BeginLastDrain
    <2>2. PICK answer \in {"drained", "late"} :
            /\ heard' = [heard EXCEPT !["server"] = answer]
            /\ answer = "drained" => Serving = {}
      BY <1>10 DEF BeginLastDrain, Heard
    <2>3. request' \in [HttpRequests -> {"idle", "open", "left", "cut", "over"}]
      BY <1>0, <2>1
    <2>4. ShutdownTypeOK'
      BY <1>0, <2>1, <2>2, <2>3, WorkSettledLemma DEF ShutdownTypeOK, ShutdownStages, Questions, Drains
    <2>5. StagesInOrder' /\ OverIsDrained'
      BY <2>1 DEF StagesInOrder, OverIsDrained
    <2>6. heard'["jobs"] = heard["jobs"] /\ heard'["server"] = answer
      BY <1>0, <2>2 DEF Questions
    <2>7. answer = "drained" => Served' \subseteq orphans'
      BY <1>0, <2>1, <2>2 DEF StagesInOrder, Serving, Served
    <2>8. "last" \notin settled
      BY <1>0, <2>1 DEF StagesInOrder
    <2>9. "last" \in settled' => Running' = {}
      BY <1>0, <2>1, <2>8, WorkSettledLemma DEF Running
    <2>10. HeardIsTrue'
      BY <2>1, <2>6, <2>7, <2>9 DEF HeardIsTrue
    <2> QED
      BY <2>4, <2>5, <2>10
  <1>11. CASE FinishShutdown
    <2>1. /\ shutdown = "last" /\ closed' = TRUE
          /\ shutdown' = IF AllDrained /\ "last" \in settled THEN "over" ELSE "exited"
          /\ UNCHANGED <<work, request, orphans, runs, asked, settled, heard>>
      BY <1>11 DEF FinishShutdown
    <2>2. ShutdownTypeOK'
      BY <1>0, <2>1 DEF ShutdownTypeOK, ShutdownStages
    <2>3. StagesInOrder' /\ OverIsDrained' /\ HeardIsTrue'
      BY <2>1 DEF StagesInOrder, OverIsDrained, AllDrained, HeardIsTrue, Served, Running
    <2> QED
      BY <2>2, <2>3
  <1>12. CASE UNCHANGED shutdownVars
    BY <1>12 DEF shutdownVars, ShutdownTypeOK, StagesInOrder, OverIsDrained, AllDrained, HeardIsTrue,
                 Served, Running
  <1> QED
    BY <1>1, <1>2, <1>3, <1>4, <1>5, <1>6, <1>7, <1>8, <1>9, <1>10, <1>11, <1>12
    DEF ShutdownNext, ShutdownProgress

(* The strengthened invariant holds in every reachable state.              *)
LEMMA ShutdownInvariance == ShutdownSpec => []ShutdownIInv
  BY ShutdownInitIInv, ShutdownNextIInv, PTL DEF ShutdownSpec

(* In a process that goes on after the stores were closed no job run is    *)
(* left, no request that a client waits for, and no work unless a handler  *)
(* whose client had gone was left (registerShutdownHandlers).              *)
THEOREM ShutdownIsClean == ShutdownSpec => []NothingOutlivesStores
  <1>1. ShutdownIInv => NothingOutlivesStores
    <2> SUFFICES ASSUME ShutdownIInv, closed, Alive
                 PROVE  runs = {} /\ Served \subseteq orphans /\ (orphans = {} => Running = {})
      BY DEF NothingOutlivesStores
    <2>1. shutdown = "over"
      BY DEF ShutdownIInv, StagesInOrder, Alive
    <2> QED
      BY <2>1 DEF ShutdownIInv, OverIsDrained, AllDrained, HeardIsTrue, Questions
  <1> QED
    BY <1>1, ShutdownInvariance, PTL

----------------------------------------------------------------------------
(* The kept connections.  That a use has its connection alone rests on the *)
(* lock: whoever opens or uses is at its head.  That a connection is       *)
(* closed in the end rests on the timers, and a timer closes only what is  *)
(* in the map: no opening overwrites a connection there, because the one   *)
(* that was there has been closed, and nobody else can open meanwhile.     *)

(* Only the holder of the lock opens or uses, and only a use holds a       *)
(* connection.                                                             *)
LockIsHeld ==
  \A u \in Uses : /\ use[u] \in {"opening", "using"} => HasLock(u)
                  /\ holds[u] # NoConnection => use[u] = "using"
                  /\ use[u] = "using" => holds[u] \in Connections

(* What the map and the timers know.                                       *)
MapIsLive ==
  /\ \A e \in Endpoints : pool[e] # NoConnection => link[pool[e]] \in {"open", "broken"}
  /\ \A u \in Uses : use[u] = "opening" => pool[EndpointOf[u]] = NoConnection
  /\ \A c \in idleTimer : \E e \in Endpoints : pool[e] = c

PoolIInv == PoolTypeOK /\ LockIsHeld /\ MapIsLive /\ PoolIsSound

(* The initial state satisfies it.                                         *)
LEMMA PoolInitIInv == PoolInit => PoolIInv
  BY DEF PoolInit, PoolIInv, PoolTypeOK, LockIsHeld, MapIsLive, PoolIsSound

(* Two of them cannot be at the head.                                      *)
LEMMA OneHolder ==
  ASSUME LockIsHeld, NEW u \in Uses, HasLock(u)
  PROVE  \A v \in Uses \ {u} : use[v] \notin {"opening", "using"} /\ holds[v] = NoConnection
  BY DEF LockIsHeld, HasLock

(* Every step preserves it.                                                *)
LEMMA PoolNextIInv == PoolIInv /\ [PoolNext]_poolVars => PoolIInv'
  <1> SUFFICES ASSUME PoolIInv, [PoolNext]_poolVars PROVE PoolIInv'
    OBVIOUS
  <1> USE EndpointOfAssumption, NoConnectionAssumption
  <1>0. /\ turn \in Seq(Uses) /\ quit \subseteq Uses
        /\ use \in [Uses -> {"new", "waiting", "opening", "using", "over"}]
        /\ holds \in [Uses -> Connections \cup {NoConnection}]
        /\ pool \in [Endpoints -> Connections \cup {NoConnection}]
        /\ link \in [Connections -> {"new", "open", "broken", "closed"}]
        /\ idleTimer \subseteq Connections
        /\ LockIsHeld /\ MapIsLive /\ PoolIsSound
    BY DEF PoolIInv, PoolTypeOK
  <1>1. ASSUME NEW u \in Uses, Enter(u) PROVE PoolIInv'
    <2>1. UNCHANGED <<quit, holds, pool, link, idleTimer>> /\ use[u] = "new"
      BY <1>1 DEF Enter
    <2>2. /\ use' \in [Uses -> {"new", "waiting", "opening", "using", "over"}]
          /\ \A v \in Uses : use'[v] \in {"opening", "using"} <=> use[v] \in {"opening", "using"}
          /\ \A v \in Uses : use'[v] \in {"opening", "using"} => use'[v] = use[v]
      BY <1>0, <1>1 DEF Enter
    <2>3. turn' = turn \/ turn' = Append(turn, u)
      BY <1>1 DEF Enter
    <2>4. turn' \in Seq(Uses)
      BY <1>0, <2>3
    <2>5. turn # <<>> => turn' # <<>> /\ Head(turn') = Head(turn)
      BY <1>0, <2>3
    <2>6. \A v \in Uses : HasLock(v) => HasLock(v)'
      BY <2>5 DEF HasLock
    <2> QED
      BY <1>0, <2>1, <2>2, <2>4, <2>6 DEF PoolIInv, PoolTypeOK, LockIsHeld, MapIsLive, PoolIsSound
  <1>2. ASSUME NEW u \in Uses, Unlock(u), HasLock(u), use[u] # "using",
               UNCHANGED <<quit, holds, pool, link, idleTimer>>
        PROVE  PoolIInv'
    <2>1. use' = [use EXCEPT ![u] = "over"] /\ turn' = Tail(turn) /\ turn # <<>>
      BY <1>2 DEF Unlock, HasLock
    <2>2. turn' \in Seq(Uses)
      BY <1>0, <2>1
    <2>3. \A v \in Uses \ {u} : use[v] \notin {"opening", "using"}
      BY <1>0, <1>2, OneHolder
    <2> QED
      BY <1>0, <1>2, <2>1, <2>2, <2>3 DEF PoolIInv, PoolTypeOK, LockIsHeld, MapIsLive, PoolIsSound
  <1>3. ASSUME NEW u \in Uses, Leave(u) PROVE PoolIInv'
    BY <1>2, <1>3 DEF Leave
  <1>4. ASSUME NEW u \in Uses, FailsToOpen(u) PROVE PoolIInv'
    BY <1>0, <1>2, <1>4 DEF FailsToOpen, LockIsHeld
  <1>5. ASSUME NEW u \in Uses, ReuseConnection(u) PROVE PoolIInv'
    <2> DEFINE c == pool[EndpointOf[u]]
    <2>1. /\ use[u] = "waiting" /\ HasLock(u) /\ c # NoConnection /\ link[c] = "open"
          /\ holds' = [holds EXCEPT ![u] = c] /\ idleTimer' = idleTimer \ {c}
          /\ use' = [use EXCEPT ![u] = "using"]
          /\ UNCHANGED <<turn, quit, pool, link>>
      BY <1>5 DEF ReuseConnection, StopTimer
    <2>2. c \in Connections
      BY <1>0, <2>1
    <2>3. \A v \in Uses \ {u} : use[v] \notin {"opening", "using"} /\ holds[v] = NoConnection
      BY <1>0, <2>1, OneHolder
    <2>4. PoolTypeOK'
      BY <1>0, <2>1, <2>2 DEF PoolTypeOK
    <2>5. LockIsHeld' /\ MapIsLive'
      BY <1>0, <2>1, <2>2, <2>3 DEF LockIsHeld, MapIsLive, HasLock
    <2>6. PoolIsSound'
      BY <1>0, <2>1, <2>2, <2>3 DEF LockIsHeld, PoolIsSound
    <2> QED
      BY <2>4, <2>5, <2>6 DEF PoolIInv
  <1>6. ASSUME NEW u \in Uses, BeginToOpen(u) PROVE PoolIInv'
    <2> DEFINE c == pool[EndpointOf[u]]
    <2>1. /\ use[u] = "waiting" /\ HasLock(u)
          /\ use' = [use EXCEPT ![u] = "opening"]
          /\ UNCHANGED <<turn, quit, holds>>
      BY <1>6 DEF BeginToOpen
    <2>2. \A v \in Uses : use[v] \notin {"opening", "using"} /\ holds[v] = NoConnection
      BY <1>0, <2>1, OneHolder DEF LockIsHeld
    <2>3. CASE c = NoConnection /\ UNCHANGED <<pool, link, idleTimer>>
      BY <1>0, <2>1, <2>2, <2>3 DEF PoolIInv, PoolTypeOK, LockIsHeld, MapIsLive, PoolIsSound, HasLock
    <2>4. CASE c # NoConnection /\ Close(c)
      <3>1. c \in Connections
        BY <1>0, <2>4
      <3>2. /\ pool' = [e \in Endpoints |-> IF pool[e] = c THEN NoConnection ELSE pool[e]]
            /\ link' = [link EXCEPT ![c] = "closed"] /\ idleTimer' = idleTimer \ {c}
        BY <2>4 DEF Close
      <3>3. PoolTypeOK'
        BY <1>0, <2>1, <3>1, <3>2 DEF PoolTypeOK
      <3>4. LockIsHeld' /\ MapIsLive'
        BY <1>0, <2>1, <2>2, <3>1, <3>2 DEF LockIsHeld, MapIsLive, HasLock
      <3>5. PoolIsSound'
        BY <1>0, <2>1, <2>2, <3>1, <3>2 DEF PoolIsSound
      <3> QED
        BY <3>3, <3>4, <3>5 DEF PoolIInv
    <2> QED
      BY <1>6, <2>3, <2>4 DEF BeginToOpen
  <1>7. ASSUME NEW u \in Uses, Opened(u) PROVE PoolIInv'
    <2>1. PICK c \in Connections :
            /\ link[c] = "new" /\ link' = [link EXCEPT ![c] = "open"]
            /\ pool' = [pool EXCEPT ![EndpointOf[u]] = c]
            /\ holds' = [holds EXCEPT ![u] = c]
      BY <1>7 DEF Opened
    <2>2. use[u] = "opening" /\ use' = [use EXCEPT ![u] = "using"] /\ UNCHANGED <<turn, quit, idleTimer>>
      BY <1>7 DEF Opened
    <2>3. /\ HasLock(u) /\ pool[EndpointOf[u]] = NoConnection
          /\ \A v \in Uses \ {u} : use[v] \notin {"opening", "using"} /\ holds[v] = NoConnection
      BY <1>0, <2>2, OneHolder DEF LockIsHeld, MapIsLive
    <2>4. \A e \in Endpoints : pool[e] # c
      BY <1>0, <2>1 DEF MapIsLive
    <2>5. PoolTypeOK'
      BY <1>0, <2>1, <2>2 DEF PoolTypeOK
    <2>6. LockIsHeld' /\ MapIsLive'
      BY <1>0, <2>1, <2>2, <2>3, <2>4 DEF LockIsHeld, MapIsLive, HasLock
    <2>7. PoolIsSound'
      BY <1>0, <2>1, <2>2, <2>3, <2>4 DEF LockIsHeld, MapIsLive, PoolIsSound
    <2> QED
      BY <2>5, <2>6, <2>7 DEF PoolIInv
  <1>8. ASSUME NEW u \in Uses, Release(u) PROVE PoolIInv'
    <2> DEFINE c == holds[u]
    <2>1. /\ use[u] = "using" /\ holds' = [holds EXCEPT ![u] = NoConnection]
          /\ use' = [use EXCEPT ![u] = "over"] /\ turn' = Tail(turn) /\ quit' = quit
      BY <1>8 DEF Release, Unlock
    <2>2. /\ HasLock(u) /\ c \in Connections /\ c \notin idleTimer
          /\ link[c] # "closed" /\ pool[EndpointOf[u]] = c
          /\ \A v \in Uses \ {u} : use[v] \notin {"opening", "using"} /\ holds[v] = NoConnection
      BY <1>0, <2>1, OneHolder DEF LockIsHeld, PoolIsSound
    <2>3. turn' \in Seq(Uses)
      BY <1>0, <2>1, <2>2 DEF HasLock
    <2>4. CASE link[c] = "open" /\ idleTimer' = idleTimer \cup {c} /\ UNCHANGED <<pool, link>>
      <3>1. PoolTypeOK'
        BY <1>0, <2>1, <2>2, <2>3, <2>4 DEF PoolTypeOK
      <3>2. LockIsHeld' /\ MapIsLive'
        BY <1>0, <2>1, <2>2, <2>4 DEF LockIsHeld, MapIsLive
      <3>3. PoolIsSound'
        BY <1>0, <2>1, <2>2, <2>4 DEF PoolIsSound
      <3> QED
        BY <3>1, <3>2, <3>3 DEF PoolIInv
    <2>5. CASE Close(c)
      <3>1. /\ pool' = [e \in Endpoints |-> IF pool[e] = c THEN NoConnection ELSE pool[e]]
            /\ link' = [link EXCEPT ![c] = "closed"] /\ idleTimer' = idleTimer \ {c}
        BY <2>5 DEF Close
      <3>2. PoolTypeOK'
        BY <1>0, <2>1, <2>2, <2>3, <3>1 DEF PoolTypeOK
      <3>3. LockIsHeld' /\ MapIsLive'
        BY <1>0, <2>1, <2>2, <3>1 DEF LockIsHeld, MapIsLive
      <3>4. PoolIsSound'
        BY <1>0, <2>1, <2>2, <3>1 DEF PoolIsSound
      <3> QED
        BY <3>2, <3>3, <3>4 DEF PoolIInv
    <2> QED
      BY <1>8, <2>4, <2>5 DEF Release
  <1>9. ASSUME NEW u \in Uses, AbortUse(u) PROVE PoolIInv'
    BY <1>0, <1>9 DEF AbortUse, PoolIInv, PoolTypeOK, LockIsHeld, MapIsLive, PoolIsSound, HasLock
  <1>10. ASSUME NEW c \in Connections, Breaks(c) PROVE PoolIInv'
    <2>1. /\ link[c] = "open" /\ link' = [link EXCEPT ![c] = "broken"]
          /\ UNCHANGED <<turn, use, quit, holds, pool, idleTimer>>
      BY <1>10 DEF Breaks
    <2>2. PoolTypeOK' /\ LockIsHeld'
      BY <1>0, <2>1 DEF PoolTypeOK, LockIsHeld, HasLock
    <2>3. MapIsLive'
      BY <1>0, <2>1 DEF MapIsLive
    <2>4. PoolIsSound'
      BY <1>0, <2>1 DEF PoolIsSound, LockIsHeld
    <2> QED
      BY <2>2, <2>3, <2>4 DEF PoolIInv
  <1>11. ASSUME NEW c \in Connections, TimerFires(c) PROVE PoolIInv'
    <2>1. c \in idleTimer /\ Close(c) /\ UNCHANGED <<turn, use, quit, holds>>
      BY <1>0, <1>11 DEF TimerFires, MapIsLive
    <2>2. /\ pool' = [e \in Endpoints |-> IF pool[e] = c THEN NoConnection ELSE pool[e]]
          /\ link' = [link EXCEPT ![c] = "closed"] /\ idleTimer' = idleTimer \ {c}
      BY <2>1 DEF Close
    <2>3. PoolTypeOK' /\ LockIsHeld'
      BY <1>0, <2>1, <2>2 DEF PoolTypeOK, LockIsHeld, HasLock
    <2>4. MapIsLive'
      BY <1>0, <2>1, <2>2 DEF MapIsLive
    <2>5. \A u \in Uses : use[u] = "using" => holds[u] # c
      BY <1>0, <2>1 DEF PoolIsSound
    <2>6. PoolIsSound'
      BY <1>0, <2>1, <2>2, <2>5 DEF PoolIsSound, LockIsHeld
    <2> QED
      BY <2>3, <2>4, <2>6 DEF PoolIInv
  <1>12. CASE UNCHANGED poolVars
    BY <1>0, <1>12 DEF poolVars, PoolIInv, PoolTypeOK, LockIsHeld, MapIsLive, PoolIsSound, HasLock
  <1> QED
    BY <1>1, <1>3, <1>4, <1>5, <1>6, <1>7, <1>8, <1>9, <1>10, <1>11, <1>12 DEF PoolNext

(* A use has its connection alone and in the map of its device, nobody     *)
(* closes it under the use, and one that is not used will be closed        *)
(* (withSSH, withDeviceAgent, releaseSshSession).                          *)
THEOREM ConnectionsAreSound == PoolSpec => []PoolIsSound
  BY PoolInitIInv, PoolNextIInv, PTL DEF PoolSpec, PoolIInv

----------------------------------------------------------------------------
(* The device bridge.  Its answers, cancellations and closes travel on     *)
(* connections of their own; what each of them still means when it         *)
(* arrives is told by what its sender can no longer do.                    *)

BridgeTypes ==
  /\ call \in [BridgeCalls -> {"new", "sent", "ok", "left", "over"}]
  /\ op \in [BridgeCalls -> {"none", "queued", "running", "opened", "done", "answered", "refused"}]
  /\ outcome \in [BridgeCalls -> {"none", "ok", "failed", "cancelled", "deadline"}]
  /\ tunnel \in [Openers -> {"none", "loose", "listed", "dead", "unlisted", "ended"}]
  /\ closing \in [Openers -> {"none", "sent", "ending", "over"}]
  /\ phase \in {"serving", "draining", "clients", "tunnels", "over"}

(* A client that cancels has left.                                         *)
CancelsAreLate == \A r \in BridgeCalls : r \in cancels \cup cancelled => call[r] = "left"

(* A handler has no outcome before it concludes; a tunnel that it could    *)
(* answer for is in the map until its client, which was told of it, closes *)
(* it.                                                                     *)
AnswersAreTrue ==
  /\ \A r \in BridgeCalls : op[r] \in {"none", "queued", "running", "opened"} => outcome[r] = "none"
  /\ \A r \in BridgeCalls : op[r] = "opened" => r \in Openers
  /\ \A r \in Openers : closing[r] # "none" => call[r] = "over"
  /\ \A r \in Openers : tunnel[r] = "unlisted" => closing[r] # "none"
  /\ \A r \in BridgeCalls : call[r] = "ok" => outcome[r] = "ok"
  /\ \A r \in BridgeCalls : call[r] = "new" => op[r] = "none"
  /\ \A r \in Openers :
       outcome[r] = "ok" /\ closing[r] = "none" /\ phase # "over" => r \in Listed

(* Before it is killed, the mux process has no tunnel but those that came  *)
(* after the last look.                                                    *)
OnlyLateAreListed == recovery = "killing" => Listed \subseteq late

BridgeIInv == BridgeTypes /\ CancelsAreLate /\ AnswersAreTrue /\ OnlyLateAreListed /\ BridgeIsSound

(* The initial state satisfies it.                                         *)
LEMMA BridgeInitIInv == BridgeInit => BridgeIInv
  <1> SUFFICES ASSUME BridgeInit PROVE BridgeIInv
    OBVIOUS
  <1>1. BridgeTypes
    BY DEF BridgeInit, BridgeTypes
  <1>2. CancelsAreLate /\ AnswersAreTrue /\ OnlyLateAreListed
    BY DEF BridgeInit, CancelsAreLate, AnswersAreTrue, OnlyLateAreListed, BridgeCalls
  <1>3. BridgeIsSound
    BY DEF BridgeInit, BridgeIsSound, CancelsItsOwn, AnsweredTunnelsAreListed, RecoverySparesTunnels,
           DrainIsFinal, BridgeCalls
  <1> QED
    BY <1>1, <1>2, <1>3 DEF BridgeIInv

(* The map of the tunnels grows by late ones, and is empty when it is      *)
(* looked at for the last time.                                            *)
LEMMA LateStep ==
  ASSUME BridgeTypes, OnlyLateAreListed, [BridgeNext]_bridgeVars
  PROVE  OnlyLateAreListed'
  <1>0. tunnel \in [Openers -> {"none", "loose", "listed", "dead", "unlisted", "ended"}]
    BY DEF BridgeTypes
  <1>1. ASSUME UNCHANGED <<recovery, late>>, Listed' \subseteq Listed PROVE OnlyLateAreListed'
    BY <1>1 DEF OnlyLateAreListed
  <1>2. ASSUME UNCHANGED <<recovery, late, tunnel>> PROVE OnlyLateAreListed'
    BY <1>1, <1>2 DEF Listed
  <1>3. ASSUME NEW q \in BridgeCalls,
               \/ SendCall(q) \/ Admit(q) \/ Turned(q) \/ Reply(q) \/ Executes(q) \/ Dropped(q)
               \/ Hear(q) \/ GiveUp(q) \/ CancelArrives(q)
        PROVE  OnlyLateAreListed'
    BY <1>2, <1>3 DEF SendCall, Admit, Turned, Reply, Executes, Dropped, Hear, GiveUp, CancelArrives,
                      tunnels, supervisor
  <1>4. ASSUME NEW q \in Openers, CloseTunnel(q) \/ CloseIsLost(q) PROVE OnlyLateAreListed'
    BY <1>2, <1>4 DEF CloseTunnel, CloseIsLost, supervisor
  <1>5. ASSUME NEW q \in Openers, SpawnTunnel(q) \/ AcceptFails(q) \/ TunnelEnds(q) \/ CloseBegins(q)
        PROVE  OnlyLateAreListed'
    <2>1. UNCHANGED <<recovery, late>>
      BY <1>5 DEF SpawnTunnel, AcceptFails, TunnelEnds, CloseBegins, supervisor
    <2>2. Listed' \subseteq Listed
      BY <1>0, <1>5 DEF SpawnTunnel, AcceptFails, TunnelEnds, CloseBegins, Listed
    <2> QED
      BY <1>1, <2>1, <2>2
  <1>6. ASSUME NEW q \in Openers, ListTunnel(q) PROVE OnlyLateAreListed'
    BY <1>0, <1>6 DEF ListTunnel, OnlyLateAreListed, Listed
  <1>7. CASE CloseAll
    BY <1>0, <1>7 DEF CloseAll, supervisor, OnlyLateAreListed, Listed
  <1>8. CASE GateIsDrained \/ ClientsAreGone \/ Terminate \/ UNCHANGED bridgeVars
    BY <1>2, <1>8 DEF GateIsDrained, ClientsAreGone, Terminate, tunnels, supervisor, bridgeVars
  <1>9. CASE MuxIsStopped \/ MuxComesUp \/ MuxFails \/ MuxIsRestarted \/ AMinutePasses
    BY <1>2, <1>9 DEF MuxIsStopped, MuxComesUp, MuxFails, MuxIsRestarted, AMinutePasses, rpc, tunnels
  <1>10. CASE TakeRecovery \/ KillMux
    BY <1>10 DEF TakeRecovery, KillMux, OnlyLateAreListed
  <1>11. CASE ProbeIsOver
    BY <1>11 DEF ProbeIsOver, OnlyLateAreListed, NobodyTunnels, Listed, rpc, tunnels
  <1> QED
    BY <1>3, <1>4, <1>5, <1>6, <1>7, <1>8, <1>9, <1>10, <1>11 DEF BridgeNext, BridgeProgress

(* Steps that leave the client, the handlers and the tunnels alone.        *)
LEMMA SupervisorStep ==
  ASSUME BridgeIInv, UNCHANGED <<call, op, outcome, cancels, cancelled, tunnels, phase>>, broken' = {},
         OnlyLateAreListed'
  PROVE  BridgeIInv'
  BY DEF tunnels, BridgeIInv, BridgeTypes, CancelsAreLate, AnswersAreTrue, BridgeIsSound,
         CancelsItsOwn, AnsweredTunnelsAreListed, RecoverySparesTunnels, DrainIsFinal, InGate, Listed

(* Every step of the supervisor of the mux process.                        *)
LEMMA SupervisorIInv ==
  ASSUME BridgeIInv, OnlyLateAreListed',
         MuxComesUp \/ MuxFails \/ MuxIsRestarted \/ TakeRecovery \/ ProbeIsOver \/ KillMux
           \/ AMinutePasses \/ MuxIsStopped
  PROVE  BridgeIInv'
  <1>1. UNCHANGED <<call, op, outcome, cancels, cancelled, tunnels, phase>>
    BY DEF MuxComesUp, MuxFails, MuxIsRestarted, TakeRecovery, ProbeIsOver, KillMux, AMinutePasses,
           MuxIsStopped, rpc
  <1>2. broken = {}
    BY DEF BridgeIInv, BridgeIsSound, RecoverySparesTunnels
  <1>3. CASE KillMux
    <2>1. \A r \in Openers : call[r] = "ok" /\ phase # "over" => r \in Listed
      BY DEF BridgeIInv, BridgeIsSound, AnsweredTunnelsAreListed
    <2>2. Listed \subseteq late
      BY <1>3 DEF KillMux, BridgeIInv, OnlyLateAreListed
    <2>3. broken' = {}
      BY <1>3, <2>1, <2>2 DEF KillMux
    <2> QED
      BY <1>1, <2>3, SupervisorStep
  <1>4. CASE ~KillMux
    <2>1. broken' = {}
      BY <1>2, <1>4 DEF MuxComesUp, MuxFails, MuxIsRestarted, TakeRecovery, ProbeIsOver, AMinutePasses,
                        MuxIsStopped
    <2> QED
      BY <1>1, <2>1, SupervisorStep
  <1> QED
    BY <1>3, <1>4

(* Every step preserves it.                                                *)
LEMMA BridgeNextIInv == BridgeIInv /\ [BridgeNext]_bridgeVars => BridgeIInv'
  <1> SUFFICES ASSUME BridgeIInv, [BridgeNext]_bridgeVars PROVE BridgeIInv'
    OBVIOUS
  <1>0. BridgeTypes /\ CancelsAreLate /\ AnswersAreTrue /\ CancelsItsOwn /\ DrainIsFinal /\ broken = {}
    BY DEF BridgeIInv, BridgeIsSound, RecoverySparesTunnels
  <1>00. OnlyLateAreListed'
    BY LateStep DEF BridgeIInv
  <1>a. ASSUME broken' = broken, BridgeTypes', CancelsAreLate', AnswersAreTrue', CancelsItsOwn',
               DrainIsFinal'
        PROVE  BridgeIInv'
    <2>1. AnsweredTunnelsAreListed'
      BY <1>a DEF AnswersAreTrue, AnsweredTunnelsAreListed, BridgeCalls
    <2> QED
      BY <1>0, <1>00, <1>a, <2>1 DEF BridgeIInv, BridgeIsSound, RecoverySparesTunnels
  <1> USE DEF BridgeTypes, tunnels, supervisor, Listed
  <1>1. ASSUME NEW r \in BridgeCalls, SendCall(r) PROVE BridgeIInv'
    <2>1. BridgeTypes' /\ CancelsAreLate' /\ AnswersAreTrue'
      BY <1>0, <1>1 DEF SendCall, CancelsAreLate, AnswersAreTrue, BridgeCalls
    <2>2. CancelsItsOwn' /\ DrainIsFinal'
      BY <1>0, <1>1 DEF SendCall, CancelsItsOwn, DrainIsFinal, InGate, Listed
    <2> QED
      BY <1>1, <2>1, <2>2, <1>a DEF SendCall
  <1>2. ASSUME NEW r \in BridgeCalls, Hear(r) PROVE BridgeIInv'
    <2>1. BridgeTypes' /\ CancelsAreLate' /\ AnswersAreTrue'
      BY <1>0, <1>2 DEF Hear, CancelsAreLate, AnswersAreTrue, BridgeCalls
    <2>2. CancelsItsOwn' /\ DrainIsFinal'
      BY <1>0, <1>2 DEF Hear, CancelsItsOwn, DrainIsFinal, InGate, Listed
    <2> QED
      BY <1>2, <2>1, <2>2, <1>a DEF Hear
  <1>3. ASSUME NEW r \in BridgeCalls, GiveUp(r) PROVE BridgeIInv'
    <2>1. BridgeTypes' /\ CancelsAreLate' /\ AnswersAreTrue'
      BY <1>0, <1>3 DEF GiveUp, CancelsAreLate, AnswersAreTrue, BridgeCalls
    <2>2. CancelsItsOwn' /\ DrainIsFinal'
      BY <1>0, <1>3 DEF GiveUp, CancelsItsOwn, DrainIsFinal, InGate, Listed
    <2> QED
      BY <1>3, <2>1, <2>2, <1>a DEF GiveUp
  <1>4. ASSUME NEW r \in BridgeCalls, Admit(r) PROVE BridgeIInv'
    <2>1. BridgeTypes' /\ CancelsAreLate' /\ AnswersAreTrue'
      BY <1>0, <1>4 DEF Admit, CancelsAreLate, AnswersAreTrue, BridgeCalls
    <2>2. CancelsItsOwn' /\ DrainIsFinal'
      BY <1>0, <1>4 DEF Admit, MayBegin, CancelsItsOwn, DrainIsFinal, InGate, Listed
    <2> QED
      BY <1>4, <2>1, <2>2, <1>a DEF Admit
  <1>5. ASSUME NEW r \in BridgeCalls, Executes(r) PROVE BridgeIInv'
    <2>1. PICK how \in {"ok", "failed"} :
            /\ op[r] = "running" /\ Concludes(r, how)
            /\ how = "ok" => r \in Askers
      BY <1>5 DEF Executes
    <2>2. UNCHANGED <<call, cancels, cancelled, tunnels, phase, supervisor>>
      BY <1>5 DEF Executes
    <2>3. BridgeTypes' /\ CancelsAreLate' /\ AnswersAreTrue'
      BY <1>0, <2>1, <2>2, BridgeAssumption DEF Concludes, CancelsAreLate, AnswersAreTrue, BridgeCalls
    <2>4. CancelsItsOwn' /\ DrainIsFinal'
      BY <1>0, <2>1, <2>2 DEF Concludes, CancelsItsOwn, DrainIsFinal, InGate, Listed
    <2> QED
      BY <2>2, <2>3, <2>4, <1>a
  <1>6. ASSUME NEW r \in BridgeCalls, Dropped(r) PROVE BridgeIInv'
    <2>1. PICK how \in {"cancelled", "deadline"} :
            /\ op[r] \in {"running", "opened"} /\ Concludes(r, how)
            /\ how = "cancelled" => r \in cancelled
      BY <1>6 DEF Dropped
    <2>2. UNCHANGED <<call, cancels, cancelled, tunnels, phase, supervisor>>
      BY <1>6 DEF Dropped
    <2>3. BridgeTypes' /\ CancelsAreLate' /\ AnswersAreTrue'
      BY <1>0, <2>1, <2>2 DEF Concludes, CancelsAreLate, AnswersAreTrue, BridgeCalls
    <2>4. CancelsItsOwn' /\ DrainIsFinal'
      BY <1>0, <2>1, <2>2 DEF Concludes, CancelsAreLate, CancelsItsOwn, DrainIsFinal, InGate, Listed
    <2> QED
      BY <2>2, <2>3, <2>4, <1>a
  <1>7. ASSUME NEW r \in BridgeCalls, Reply(r) PROVE BridgeIInv'
    <2>1. BridgeTypes' /\ CancelsAreLate' /\ AnswersAreTrue'
      BY <1>0, <1>7 DEF Reply, CancelsAreLate, AnswersAreTrue, BridgeCalls
    <2>2. CancelsItsOwn' /\ DrainIsFinal'
      BY <1>0, <1>7 DEF Reply, CancelsItsOwn, DrainIsFinal, InGate, Listed
    <2> QED
      BY <1>7, <2>1, <2>2, <1>a DEF Reply
  <1>8. ASSUME NEW r \in BridgeCalls, CancelArrives(r) PROVE BridgeIInv'
    <2>1. BridgeTypes' /\ CancelsAreLate' /\ AnswersAreTrue'
      BY <1>0, <1>8 DEF CancelArrives, CancelsAreLate, AnswersAreTrue, BridgeCalls
    <2>2. CancelsItsOwn' /\ DrainIsFinal'
      BY <1>0, <1>8 DEF CancelArrives, CancelsItsOwn, DrainIsFinal, InGate, Listed
    <2> QED
      BY <1>8, <2>1, <2>2, <1>a DEF CancelArrives
  <1>9. ASSUME NEW r \in BridgeCalls, Turned(r) PROVE BridgeIInv'
    <2>1. BridgeTypes' /\ CancelsAreLate' /\ AnswersAreTrue'
      BY <1>0, <1>9 DEF Turned, CancelsAreLate, AnswersAreTrue, BridgeCalls
    <2>2. CancelsItsOwn' /\ DrainIsFinal'
      BY <1>0, <1>9 DEF Turned, CancelsItsOwn, DrainIsFinal, InGate, Listed
    <2> QED
      BY <1>9, <2>1, <2>2, <1>a DEF Turned
  <1>10. ASSUME NEW r \in Openers, CloseTunnel(r) PROVE BridgeIInv'
    <2>1. BridgeTypes' /\ CancelsAreLate' /\ AnswersAreTrue'
      BY <1>0, <1>10 DEF CloseTunnel, CancelsAreLate, AnswersAreTrue, BridgeCalls
    <2>2. CancelsItsOwn' /\ DrainIsFinal'
      BY <1>0, <1>10 DEF CloseTunnel, CancelsItsOwn, AnswersAreTrue, DrainIsFinal, InGate, Listed,
                         BridgeCalls
    <2> QED
      BY <1>10, <2>1, <2>2, <1>a DEF CloseTunnel
  <1>11. ASSUME NEW r \in Openers, SpawnTunnel(r) PROVE BridgeIInv'
    <2>1. BridgeTypes' /\ CancelsAreLate' /\ AnswersAreTrue'
      BY <1>0, <1>11 DEF SpawnTunnel, CancelsAreLate, AnswersAreTrue, BridgeCalls
    <2>2. CancelsItsOwn' /\ DrainIsFinal'
      BY <1>0, <1>11 DEF SpawnTunnel, CancelsItsOwn, DrainIsFinal, InGate, Listed, BridgeCalls
    <2> QED
      BY <1>11, <2>1, <2>2, <1>a DEF SpawnTunnel
  <1>12. ASSUME NEW r \in Openers, ListTunnel(r) PROVE BridgeIInv'
    <2>1. BridgeTypes' /\ CancelsAreLate' /\ AnswersAreTrue'
      BY <1>0, <1>12 DEF ListTunnel, Concludes, CancelsAreLate, AnswersAreTrue, BridgeCalls
    <2>2. CancelsItsOwn' /\ DrainIsFinal'
      BY <1>0, <1>12 DEF ListTunnel, Concludes, CancelsItsOwn, DrainIsFinal, InGate, Listed,
                         BridgeCalls
    <2> QED
      BY <1>12, <2>1, <2>2, <1>a DEF ListTunnel
  <1>13. ASSUME NEW r \in Openers, CloseBegins(r) PROVE BridgeIInv'
    <2>1. BridgeTypes' /\ CancelsAreLate' /\ AnswersAreTrue'
      BY <1>0, <1>13 DEF CloseBegins, CancelsAreLate, AnswersAreTrue, BridgeCalls
    <2>2. CancelsItsOwn' /\ DrainIsFinal'
      BY <1>0, <1>13 DEF CloseBegins, CancelsItsOwn, DrainIsFinal, InGate, Listed
    <2> QED
      BY <1>13, <2>1, <2>2, <1>a DEF CloseBegins
  <1>14. ASSUME NEW r \in Openers, CloseIsLost(r) PROVE BridgeIInv'
    <2>1. BridgeTypes' /\ CancelsAreLate' /\ AnswersAreTrue'
      BY <1>0, <1>14 DEF CloseIsLost, CancelsAreLate, AnswersAreTrue, BridgeCalls
    <2>2. CancelsItsOwn' /\ DrainIsFinal'
      BY <1>0, <1>14 DEF CloseIsLost, CancelsItsOwn, DrainIsFinal, InGate, Listed
    <2> QED
      BY <1>14, <2>1, <2>2, <1>a DEF CloseIsLost
  <1>15. ASSUME NEW r \in Openers, TunnelEnds(r) \/ AcceptFails(r) PROVE BridgeIInv'
    <2>1. BridgeTypes' /\ CancelsAreLate' /\ AnswersAreTrue'
      BY <1>0, <1>15 DEF TunnelEnds, AcceptFails, CancelsAreLate, AnswersAreTrue, BridgeCalls
    <2>2. CancelsItsOwn' /\ DrainIsFinal'
      BY <1>0, <1>15 DEF TunnelEnds, AcceptFails, CancelsItsOwn, DrainIsFinal, InGate
    <2> QED
      BY <1>15, <2>1, <2>2, <1>a DEF TunnelEnds, AcceptFails
  <1>16. CASE Terminate
    <2>1. BridgeTypes' /\ CancelsAreLate' /\ AnswersAreTrue'
      BY <1>0, <1>16 DEF Terminate, CancelsAreLate, AnswersAreTrue, BridgeCalls
    <2>2. CancelsItsOwn' /\ DrainIsFinal'
      BY <1>0, <1>16 DEF Terminate, CancelsItsOwn, DrainIsFinal, InGate, Listed, BridgeCalls
    <2> QED
      BY <1>16, <2>1, <2>2, <1>a DEF Terminate
  <1>17. CASE GateIsDrained
    <2>1. BridgeTypes' /\ CancelsAreLate' /\ AnswersAreTrue'
      BY <1>0, <1>17 DEF GateIsDrained, CancelsAreLate, AnswersAreTrue, BridgeCalls
    <2>2. CancelsItsOwn' /\ DrainIsFinal'
      BY <1>0, <1>17 DEF GateIsDrained, GateFree, CancelsItsOwn, DrainIsFinal, InGate, Listed, BridgeCalls
    <2> QED
      BY <1>17, <2>1, <2>2, <1>a DEF GateIsDrained
  <1>18. CASE ClientsAreGone
    <2>1. BridgeTypes' /\ CancelsAreLate' /\ AnswersAreTrue'
      BY <1>0, <1>18 DEF ClientsAreGone, CancelsAreLate, AnswersAreTrue, BridgeCalls
    <2>2. CancelsItsOwn' /\ DrainIsFinal'
      BY <1>0, <1>18 DEF ClientsAreGone, CancelsItsOwn, DrainIsFinal, InGate, Listed, BridgeCalls
    <2> QED
      BY <1>18, <2>1, <2>2, <1>a DEF ClientsAreGone
  <1>19. CASE CloseAll
    <2>1. BridgeTypes' /\ CancelsAreLate' /\ AnswersAreTrue'
      BY <1>0, <1>19 DEF CloseAll, CancelsAreLate, AnswersAreTrue, BridgeCalls
    <2>2. CancelsItsOwn' /\ DrainIsFinal'
      BY <1>0, <1>19 DEF CloseAll, CancelsItsOwn, DrainIsFinal, InGate, Listed, BridgeCalls
    <2> QED
      BY <1>19, <2>1, <2>2, <1>a DEF CloseAll
  <1>20. CASE UNCHANGED bridgeVars
    BY <1>0, <1>00, <1>20, SupervisorStep DEF bridgeVars
  <1> QED
    BY <1>1, <1>2, <1>3, <1>4, <1>5, <1>6, <1>7, <1>8, <1>9, <1>10, <1>11, <1>12, <1>13, <1>14,
       <1>15, <1>16, <1>17, <1>18, <1>19, <1>20, <1>00, SupervisorIInv
    DEF BridgeNext, BridgeProgress

(* Only requests whose client left are cancelled, a tunnel that was        *)
(* answered for stays in the map, the recovery of the mux takes none from  *)
(* a client but what came after its last look, and the end of the bridge   *)
(* is final (main.rs).                                                     *)
THEOREM BridgeSound == BridgeSpec => []BridgeIsSound
  BY BridgeInitIInv, BridgeNextIInv, PTL DEF BridgeSpec, BridgeIInv

----------------------------------------------------------------------------
(* The library.  A file is indexed, or it is the one a promotion has just  *)
(* renamed; while a promotion holds the chain nothing it planned with      *)
(* changes but links.                                                      *)

(* The bytes of files: finite, and one after the other.                    *)
LEMMA BytesAdd ==
  ASSUME NEW F \in SUBSET Requests
  PROVE  /\ Bytes(F) \in Nat
         /\ \A r \in Requests \ F : Bytes(F \cup {r}) = Bytes(F) + SizeOf[r]
         /\ \A E \in SUBSET F : Bytes(E) <= Bytes(F)
  <1> DEFINE Of(r) == {r} \X (1..SizeOf[r])
             All(E) == UNION {Of(r) : r \in E}
  <1>0. \A r \in Requests : SizeOf[r] \in Nat
    BY RequestsAssumption
  <1>1. ASSUME NEW r \in Requests
        PROVE  IsFiniteSet(Of(r)) /\ Cardinality(Of(r)) = SizeOf[r]
    <2>1. IsFiniteSet({r}) /\ Cardinality({r}) = 1
      BY FS_Singleton
    <2>2. IsFiniteSet(1..SizeOf[r]) /\ Cardinality(1..SizeOf[r]) = SizeOf[r]
      BY <1>0, FS_Interval
    <2>3. IsFiniteSet({r} \X (1..SizeOf[r])) /\ Cardinality({r} \X (1..SizeOf[r])) = 1 * SizeOf[r]
      BY <2>1, <2>2, FS_Product
    <2> QED
      BY <1>0, <2>3
  <1>2. ASSUME NEW E \in SUBSET Requests
        PROVE  IsFiniteSet(All(E))
    <2> DEFINE T == {Of(r) : r \in E}
               g == [r \in E |-> Of(r)]
    <2>1. IsFiniteSet(E)
      BY RequestsAssumption, FS_Subset
    <2>2. g \in Surjection(E, T)
      BY DEF Surjection
    <2>3. IsFiniteSet(T)
      <3> HIDE DEF g, T
      <3> QED
        BY <2>1, <2>2, FS_Surjection
    <2>4. \A t \in T : IsFiniteSet(t)
      BY <1>1
    <2> HIDE DEF T
    <2>5. IsFiniteSet(UNION T)
      BY <2>3, <2>4, FS_UNION
    <2> QED
      BY <2>5 DEF T
  <1>3. \A E \in SUBSET Requests : Bytes(E) = Cardinality(All(E))
    BY DEF Bytes
  <1>4. \A E \in SUBSET F : All(E) \subseteq All(F)
    OBVIOUS
  <1>5. ASSUME NEW r \in Requests \ F
        PROVE  All(F \cup {r}) = All(F) \cup Of(r) /\ All(F) \cap Of(r) = {}
    OBVIOUS
  <1> HIDE DEF Of, All
  <1>6. Bytes(F) \in Nat
    BY <1>2, <1>3, FS_CardinalityType
  <1>7. ASSUME NEW E \in SUBSET F
        PROVE  Bytes(E) <= Bytes(F)
    BY <1>2, <1>3, <1>4, FS_Subset
  <1>8. ASSUME NEW r \in Requests \ F
        PROVE  Bytes(F \cup {r}) = Bytes(F) + SizeOf[r]
    <2>1. Cardinality(All(F) \cup Of(r)) = Cardinality(All(F)) + Cardinality(Of(r)) - Cardinality(All(F) \cap Of(r))
      BY <1>1, <1>2, FS_Union
    <2>2. Cardinality(All(F) \cap Of(r)) = 0
      BY <1>5, FS_EmptySet
    <2>3. Cardinality(All(F)) \in Nat /\ Cardinality(Of(r)) = SizeOf[r] /\ F \cup {r} \in SUBSET Requests
      BY <1>1, <1>2, FS_CardinalityType
    <2>4. Bytes(F \cup {r}) = Cardinality(All(F) \cup Of(r)) /\ Bytes(F) = Cardinality(All(F))
      BY <1>3, <1>5, <2>3
    <2>5. SizeOf[r] \in Nat
      BY <1>0
    <2> QED
      BY <2>1, <2>2, <2>3, <2>4, <2>5
  <1> QED
    BY <1>6, <1>7, <1>8

(* One promotion at a time has the chain.                                  *)
ChainIsHeldOnce ==
  \A r, q \in Requests : promotion[r] \in Holding /\ promotion[q] \in Holding => r = q

(* What a request has put into the library, it has put there by then.      *)
FilesArePromoted ==
  /\ \A r \in files : promotion[r] \in {"renamed", "returned"} \cup Ended
  /\ \A r \in rows.in : promotion[r] \in {"returned"} \cup Ended
  /\ \A r \in Requests : result[r] # NoArtifact => result[r] \in Requests /\ ArtifactKey[result[r]] = ArtifactKey[r]
  /\ \A r \in Requests : jobFile[r] # NoArtifact => ArtifactKey[jobFile[r]] = ArtifactKey[r]
  /\ \A r \in Requests : promotion[r] = "renamed" => r \notin index.in

(* The index in memory is the one a restart would load.                    *)
RowsAreLoaded == up => index.in = rows.in /\ index.pinned = rows.pinned

(* Every file is indexed, or about to be.                                  *)
FilesAreKnown ==
  /\ rows.in \subseteq files
  /\ up => files = index.in \cup {r \in Requests : promotion[r] = "renamed"}
  /\ ~up => \A r \in Requests : promotion[r] \in {"idle", "done", "failed"}
  /\ up => \A r \in staging : promotion[r] \in {"waiting", "opened", "measured", "hashed"}

(* While a promotion looks for room, there is no record of its key; what   *)
(* it evicts is indexed, unpinned and makes room.                          *)
PlansStayValid ==
  \A r \in Requests :
    /\ promotion[r] \in {"measured", "hashed", "renamed"} =>
         \A f \in index.in : ArtifactKey[f] # ArtifactKey[r]
    /\ promotion[r] = "reusing" => result[r] \in index.in
    /\ evicting[r] # {} => promotion[r] = "renamed"
    /\ promotion[r] = "renamed" =>
         /\ evicting[r] \subseteq index.in \ index.pinned
         /\ Fits(index.in \ evicting[r], SizeOf[r])

(* The library fits, and so do its pinned artifacts when it has to be      *)
(* loaded again.                                                           *)
QuotaHolds == (up => Fits(index.in, 0)) /\ Fits(rows.pinned, 0)

LibraryIInv ==
  /\ LibraryTypeOK /\ ChainIsHeldOnce /\ FilesArePromoted /\ RowsAreLoaded /\ FilesAreKnown
  /\ PlansStayValid /\ QuotaHolds /\ OneArtifactPerKey

(* Sizes, keys and projects of requests.                                   *)
LEMMA RequestTypes ==
  ASSUME NEW r \in Requests
  PROVE  SizeOf[r] \in Nat /\ ProjectOf[r] \in Projects /\ r # NoArtifact
  BY RequestsAssumption, NoArtifactAssumption

(* The operations on an index, and the records and pins they leave.        *)
GoodIndex(x) == x \in Index /\ WellFormed(x)

LEMMA LinkedIndex ==
  ASSUME NEW x, GoodIndex(x), NEW f \in x.in, NEW p \in Projects
  PROVE  GoodIndex(Linked(x, f, p)) /\ Linked(x, f, p).in = x.in /\ Linked(x, f, p).pinned = x.pinned
  BY DEF GoodIndex, Index, WellFormed, Linked

LEMMA WithoutIndex ==
  ASSUME NEW x, GoodIndex(x), NEW F
  PROVE  GoodIndex(Without(x, F)) /\ Without(x, F).in = x.in \ F /\ Without(x, F).pinned = x.pinned \ F
  BY DEF GoodIndex, Index, WellFormed, Without

LEMMA WithArtifactIndex ==
  ASSUME NEW x, GoodIndex(x), NEW r \in Requests
  PROVE  /\ GoodIndex(WithArtifact(x, r))
         /\ WithArtifact(x, r).in = x.in \cup {r} /\ WithArtifact(x, r).pinned = x.pinned
  <1> DEFINE l == <<r, ProjectOf[r]>>
  <1>1. l \in Requests \X Projects /\ l[1] = r
    BY RequestTypes
  <1>2. PICK i \in SUBSET Requests, p \in SUBSET Requests, k \in SUBSET (Requests \X Projects) :
          x = [in |-> i, pinned |-> p, links |-> k]
    BY DEF GoodIndex, Index
  <1>3. WithArtifact(x, r) = [in |-> i \cup {r}, pinned |-> p, links |-> k \cup {l}]
    BY <1>2 DEF WithArtifact
  <1> HIDE DEF l
  <1>4. [in |-> i \cup {r}, pinned |-> p, links |-> k \cup {l}] \in Index
    BY <1>1 DEF Index
  <1>5. p \subseteq i /\ \A m \in k : m[1] \in i
    BY <1>2 DEF GoodIndex, WellFormed
  <1>6. WellFormed([in |-> i \cup {r}, pinned |-> p, links |-> k \cup {l}])
    BY <1>1, <1>5 DEF WellFormed
  <1> QED
    BY <1>2, <1>3, <1>4, <1>6 DEF GoodIndex

LEMMA PinnedIndex ==
  ASSUME NEW x, GoodIndex(x), NEW X \in SUBSET x.in, NEW value \in BOOLEAN
  PROVE  GoodIndex(Pinned(x, X, value)) /\ Pinned(x, X, value).in = x.in
  <1>1. CASE value
    BY <1>1 DEF GoodIndex, Index, WellFormed, Pinned
  <1>2. CASE ~value
    BY <1>2 DEF GoodIndex, Index, WellFormed, Pinned
  <1> QED
    BY <1>1, <1>2

LEMMA LibraryInitIInv == LibraryInit => LibraryIInv
  <1> SUFFICES ASSUME LibraryInit PROVE LibraryIInv
    OBVIOUS
  <1>1. Empty \in Index /\ WellFormed(Empty) /\ Empty.in = {} /\ Empty.pinned = {}
    BY DEF Empty, Index, WellFormed
  <1>2. LibraryTypeOK
    BY <1>1, LibraryAssumption DEF LibraryInit, LibraryTypeOK, PromotionStages
  <1>3. Fits({}, 0)
    <2>1. UNION {{f} \X (1..SizeOf[f]) : f \in {}} = {}
      OBVIOUS
    <2>2. Bytes({}) = 0
      BY <2>1, FS_EmptySet DEF Bytes
    <2> QED
      BY <2>2, QuotaAssumption DEF Fits
  <1>4. ChainIsHeldOnce /\ FilesArePromoted /\ RowsAreLoaded /\ FilesAreKnown /\ OneArtifactPerKey
    BY <1>1 DEF LibraryInit, ChainIsHeldOnce, FilesArePromoted, RowsAreLoaded, FilesAreKnown,
               OneArtifactPerKey, Holding
  <1>5. PlansStayValid /\ QuotaHolds
    BY <1>1, <1>3 DEF LibraryInit, PlansStayValid, QuotaHolds
  <1> QED
    BY <1>2, <1>4, <1>5 DEF LibraryIInv
(* The records, the pins and the files are what they were: only links      *)
(* have changed.                                                           *)
SameBooks ==
  /\ GoodIndex(index') /\ index'.in = index.in /\ index'.pinned = index.pinned
  /\ GoodIndex(rows') /\ rows'.in = rows.in /\ rows'.pinned = rows.pinned
  /\ files' = files

(* A promotion may go from one stage to the next without touching files.   *)
MayMove(r, s) ==
  /\ s \in PromotionStages \ {"renamed"} /\ promotion[r] # "renamed"
  /\ s \in Holding => promotion[r] \in Holding \/ ChainIsFree
  /\ promotion[r] \in {"returned"} \cup Ended => s \in {"returned"} \cup Ended
  /\ s \in {"measured", "hashed"} => \A f \in index.in : ArtifactKey[f] # ArtifactKey[r]

(* Staging files belong to promotions that need them.                      *)
StagingFollows ==
  /\ staging' \subseteq Requests
  /\ \A q \in staging' : promotion'[q] \in {"waiting", "opened", "measured", "hashed"}

(* Results and job files are artifacts of the request's key.               *)
ResultsFollow ==
  /\ result' \in [Requests -> Requests \cup {NoArtifact}]
  /\ jobFile' \in [Requests -> Requests \cup {NoArtifact}]
  /\ \A q \in Requests :
       /\ result'[q] # NoArtifact => result'[q] \in Requests /\ ArtifactKey[result'[q]] = ArtifactKey[q]
       /\ jobFile'[q] # NoArtifact => ArtifactKey[jobFile'[q]] = ArtifactKey[q]
       /\ promotion'[q] = "reusing" => result'[q] \in index.in

CountsAreTyped ==
  aborted' \subseteq Requests /\ writeFailures' \in 0..MaxFailures /\ libraryCrashes' \in 0..MaxLibraryCrashes

(* A step that only moves a promotion keeps the invariant.                 *)
LEMMA MovesKeepLibrary ==
  ASSUME LibraryIInv, NEW r \in Requests, NEW s, MayMove(r, s), SameBooks, StagingFollows, ResultsFollow,
         CountsAreTyped, up, up' = up, evicting' = evicting, promotion' = [promotion EXCEPT ![r] = s]
  PROVE  LibraryIInv'
  <1>1. promotion \in [Requests -> PromotionStages]
    BY DEF LibraryIInv, LibraryTypeOK
  <1>2. promotion'[r] = s /\ \A q \in Requests \ {r} : promotion'[q] = promotion[q]
    BY <1>1
  <1>3. promotion' \in [Requests -> PromotionStages]
    BY <1>1 DEF MayMove
  <1>4. LibraryTypeOK'
    BY <1>3 DEF LibraryIInv, LibraryTypeOK, SameBooks, GoodIndex, StagingFollows, ResultsFollow, CountsAreTyped
  <1>5. ChainIsHeldOnce'
    BY <1>2 DEF LibraryIInv, ChainIsHeldOnce, MayMove, ChainIsFree
  <1>6. FilesArePromoted'
    <2>1. index.in \subseteq Requests /\ files \subseteq Requests /\ rows.in \subseteq Requests
      BY DEF LibraryIInv, LibraryTypeOK, Index
    <2> QED
      BY <1>2, <2>1 DEF LibraryIInv, FilesArePromoted, MayMove, SameBooks, ResultsFollow, Ended
  <1>7. RowsAreLoaded'
    BY DEF LibraryIInv, RowsAreLoaded, SameBooks
  <1>8. FilesAreKnown'
    BY <1>2 DEF LibraryIInv, FilesAreKnown, SameBooks, MayMove, StagingFollows
  <1>9. PlansStayValid'
    <2> SUFFICES ASSUME NEW q \in Requests
                 PROVE  /\ promotion'[q] \in {"measured", "hashed", "renamed"} =>
                             \A f \in index.in : ArtifactKey[f] # ArtifactKey[q]
                        /\ promotion'[q] = "reusing" => result'[q] \in index.in
                        /\ evicting[q] # {} => promotion'[q] = "renamed"
                        /\ promotion'[q] = "renamed" =>
                             /\ evicting[q] \subseteq index.in \ index.pinned
                             /\ Fits(index.in \ evicting[q], SizeOf[q])
      BY DEF PlansStayValid, SameBooks, Fits, Bytes
    <2>1. /\ promotion[q] \in {"measured", "hashed", "renamed"} =>
               \A f \in index.in : ArtifactKey[f] # ArtifactKey[q]
          /\ evicting[q] # {} => promotion[q] = "renamed"
          /\ promotion[q] = "renamed" =>
               /\ evicting[q] \subseteq index.in \ index.pinned
               /\ Fits(index.in \ evicting[q], SizeOf[q])
      BY DEF LibraryIInv, PlansStayValid
    <2>2. CASE q = r
      BY <1>2, <2>1, <2>2 DEF MayMove, ResultsFollow
    <2>3. CASE q # r
      BY <1>2, <2>1, <2>3 DEF ResultsFollow
    <2> QED
      BY <2>2, <2>3
  <1>10. QuotaHolds' /\ OneArtifactPerKey'
    BY DEF LibraryIInv, QuotaHolds, OneArtifactPerKey, SameBooks
  <1> QED
    BY <1>4, <1>5, <1>6, <1>7, <1>8, <1>9, <1>10 DEF LibraryIInv

(* What the invariant says of types.                                       *)
LEMMA LibraryTypes ==
  ASSUME LibraryIInv
  PROVE  /\ GoodIndex(index) /\ GoodIndex(rows)
         /\ index.in \subseteq Requests /\ rows.in \subseteq Requests /\ files \subseteq Requests
         /\ index.pinned \subseteq index.in /\ rows.pinned \subseteq rows.in
         /\ promotion \in [Requests -> PromotionStages] /\ evicting \in [Requests -> SUBSET Requests]
         /\ result \in [Requests -> Requests \cup {NoArtifact}]
         /\ jobFile \in [Requests -> Requests \cup {NoArtifact}]
         /\ staging \subseteq Requests /\ aborted \subseteq Requests
         /\ writeFailures \in 0..MaxFailures /\ libraryCrashes \in 0..MaxLibraryCrashes
  BY DEF LibraryIInv, LibraryTypeOK, GoodIndex, Index, WellFormed

(* A write fails at most MaxFailures times.                                *)
LEMMA WriteFailureCount ==
  ASSUME writeFailures \in 0..MaxFailures, PersistFails
  PROVE  writeFailures' \in 0..MaxFailures
  BY LibraryAssumption DEF PersistFails
(* Nothing written, nothing changed.                                       *)
LEMMA UntouchedBooks ==
  ASSUME LibraryIInv, UNCHANGED <<index, rows, files>>
  PROVE  SameBooks
  BY LibraryTypes DEF SameBooks, GoodIndex, WellFormed

LEMMA LinkKeepsBooks ==
  ASSUME LibraryIInv, NEW f \in index.in, NEW p \in Projects, up,
         index' = Linked(index, f, p), rows' = index' \/ rows' = rows, files' = files
  PROVE  SameBooks
  <1>1. GoodIndex(index) /\ GoodIndex(rows)
    BY LibraryTypes
  <1>2. /\ GoodIndex(Linked(index, f, p))
        /\ Linked(index, f, p).in = index.in /\ Linked(index, f, p).pinned = index.pinned
    BY <1>1, LinkedIndex
  <1>3. index.in = rows.in /\ index.pinned = rows.pinned
    BY DEF LibraryIInv, RowsAreLoaded
  <1>4. GoodIndex(index') /\ index'.in = index.in /\ index'.pinned = index.pinned
    BY <1>2 DEF GoodIndex, WellFormed
  <1>5. GoodIndex(rows') /\ rows'.in = rows.in /\ rows'.pinned = rows.pinned
    BY <1>1, <1>3, <1>4 DEF GoodIndex, WellFormed
  <1> QED
    BY <1>4, <1>5 DEF SameBooks

(* Results stay good for a promotion that does not go on to reuse one.     *)
LEMMA UntouchedResults ==
  ASSUME LibraryIInv, NEW r \in Requests, NEW s, s # "reusing",
         promotion' = [promotion EXCEPT ![r] = s], UNCHANGED <<result, jobFile>>
  PROVE  ResultsFollow
  <1>1. promotion \in [Requests -> PromotionStages]
    BY LibraryTypes
  <1>2. result \in [Requests -> Requests \cup {NoArtifact}] /\ jobFile \in [Requests -> Requests \cup {NoArtifact}]
    BY LibraryTypes
  <1>3. \A q \in Requests : promotion'[q] = "reusing" => promotion[q] = "reusing"
    BY <1>1
  <1>4. \A q \in Requests :
          /\ result[q] # NoArtifact => result[q] \in Requests /\ ArtifactKey[result[q]] = ArtifactKey[q]
          /\ jobFile[q] # NoArtifact => ArtifactKey[jobFile[q]] = ArtifactKey[q]
          /\ promotion[q] = "reusing" => result[q] \in index.in
    BY DEF LibraryIInv, FilesArePromoted, PlansStayValid
  <1> QED
    BY <1>2, <1>3, <1>4 DEF ResultsFollow

(* Staging keeps the files of promotions that still need them.             *)
LEMMA StagingOfMove ==
  ASSUME LibraryIInv, up, NEW r \in Requests, NEW s, promotion' = [promotion EXCEPT ![r] = s],
         \/ staging' = staging \ {r}
         \/ staging' = staging /\ s \in {"opened", "measured", "hashed"}
         \/ staging' = staging /\ promotion[r] \notin {"waiting", "opened", "measured", "hashed"}
         \/ staging' = staging \cup {r} /\ s = "waiting"
  PROVE  StagingFollows
  <1>1. promotion \in [Requests -> PromotionStages] /\ staging \subseteq Requests
    BY LibraryTypes
  <1>2. \A q \in staging : promotion[q] \in {"waiting", "opened", "measured", "hashed"}
    BY DEF LibraryIInv, FilesAreKnown
  <1>3. promotion'[r] = s /\ \A q \in Requests \ {r} : promotion'[q] = promotion[q]
    BY <1>1
  <1> QED
    BY <1>1, <1>2, <1>3 DEF StagingFollows

LEMMA UntouchedCounts ==
  ASSUME LibraryIInv, UNCHANGED <<aborted, libraryCrashes>>, UNCHANGED writeFailures \/ PersistFails
  PROVE  CountsAreTyped
  BY LibraryTypes, WriteFailureCount DEF CountsAreTyped

(* An artifact found by its key is indexed.                                *)
LEMMA FoundIsIndexed ==
  ASSUME LibraryIInv, up, NEW r \in Requests, NEW f \in ByKey(r)
  PROVE  f \in index.in /\ f \in Requests /\ ArtifactKey[f] = ArtifactKey[r]
  BY LibraryTypes DEF ByKey, LibraryIInv, RowsAreLoaded

LEMMA RequestKeepsLibrary ==
  ASSUME LibraryIInv, NEW r \in Requests, Request(r)
  PROVE  LibraryIInv'
  <1>1. up /\ up' = up /\ evicting' = evicting /\ promotion' = [promotion EXCEPT ![r] = "waiting"]
    BY DEF Request
  <1>2. MayMove(r, "waiting")
    BY DEF Request, MayMove, PromotionStages, Holding, Ended
  <1>3. SameBooks
    BY UntouchedBooks DEF Request
  <1>4. StagingFollows
    BY <1>1, StagingOfMove DEF Request
  <1>5. ResultsFollow
    BY <1>1, UntouchedResults DEF Request
  <1>6. CountsAreTyped
    BY UntouchedCounts DEF Request
  <1> QED
    BY <1>1, <1>2, <1>3, <1>4, <1>5, <1>6, MovesKeepLibrary

LEMMA AbortKeepsLibrary ==
  ASSUME LibraryIInv, NEW r \in Requests, Abort(r)
  PROVE  LibraryIInv'
  <1>1. aborted' \subseteq Requests
    BY LibraryTypes DEF Abort
  <1>2. UNCHANGED <<up, index, rows, files, staging, promotion, evicting, result, jobFile, writeFailures,
                    libraryCrashes>>
    BY DEF Abort
  <1>3. LibraryTypeOK'
    BY <1>1, <1>2 DEF LibraryIInv, LibraryTypeOK, WellFormed
  <1>4. ChainIsHeldOnce' /\ FilesArePromoted' /\ RowsAreLoaded' /\ FilesAreKnown' /\ OneArtifactPerKey'
    BY <1>2 DEF LibraryIInv, ChainIsHeldOnce, FilesArePromoted, RowsAreLoaded, FilesAreKnown, OneArtifactPerKey
  <1>5. PlansStayValid' /\ QuotaHolds'
    BY <1>2 DEF LibraryIInv, PlansStayValid, QuotaHolds, Fits, Bytes
  <1> QED
    BY <1>3, <1>4, <1>5 DEF LibraryIInv

(* A promotion that fails before it renamed its file.                      *)
LEMMA ThrowKeepsLibrary ==
  ASSUME LibraryIInv, NEW r \in Requests, NEW at \in {"waiting", "opened", "reusing", "measured", "hashed"},
         Promoting(r, at), Throws(r), SameBooks, UNCHANGED <<evicting, result>>,
         UNCHANGED writeFailures \/ PersistFails
  PROVE  LibraryIInv'
  <1>1. up /\ up' = up /\ promotion' = [promotion EXCEPT ![r] = "failed"]
    BY DEF Promoting, Throws
  <1>2. MayMove(r, "failed")
    BY DEF Promoting, MayMove, PromotionStages, Holding, Ended
  <1>3. StagingFollows
    BY <1>1, StagingOfMove DEF Throws
  <1>4. ResultsFollow
    BY <1>1, UntouchedResults DEF Promoting
  <1>5. CountsAreTyped
    BY UntouchedCounts DEF Promoting
  <1> QED
    BY <1>1, <1>2, <1>3, <1>4, <1>5, MovesKeepLibrary

LEMMA OpenKeepsLibrary ==
  ASSUME LibraryIInv, NEW r \in Requests, Open(r)
  PROVE  LibraryIInv'
  <1>1. Promoting(r, "waiting") /\ ChainIsFree /\ UNCHANGED <<index, rows, files, evicting, result, writeFailures>>
    BY DEF Open
  <1>2. SameBooks
    BY <1>1, UntouchedBooks
  <1>3. CASE r \in aborted
    <2>1. Throws(r)
      BY <1>3 DEF Open
    <2> QED
      BY <1>1, <1>2, <2>1, ThrowKeepsLibrary
  <1>4. CASE r \notin aborted
    <2>1. up /\ up' = up /\ promotion' = [promotion EXCEPT ![r] = "opened"] /\ staging' = staging
      BY <1>1, <1>4 DEF Open, Promoting
    <2>2. MayMove(r, "opened")
      BY <1>1 DEF Promoting, MayMove, PromotionStages, Holding, Ended
    <2>3. StagingFollows
      BY <2>1, StagingOfMove
    <2>4. ResultsFollow
      BY <1>1, <2>1, UntouchedResults DEF Promoting
    <2>5. CountsAreTyped
      BY <1>1, UntouchedCounts DEF Promoting
    <2> QED
      BY <1>1, <1>2, <2>1, <2>2, <2>3, <2>4, <2>5, MovesKeepLibrary
  <1> QED
    BY <1>3, <1>4

LEMMA LookUpKeepsLibrary ==
  ASSUME LibraryIInv, NEW r \in Requests, LookUp(r)
  PROVE  LibraryIInv'
  <1>1. Promoting(r, "opened") /\ UNCHANGED <<index, rows, files, evicting, writeFailures>>
    BY DEF LookUp
  <1>2. SameBooks
    BY <1>1, UntouchedBooks
  <1>3. CountsAreTyped
    BY <1>1, UntouchedCounts DEF Promoting
  <1>4. up /\ up' = up /\ promotion[r] = "opened" /\ jobFile' = jobFile
    BY <1>1 DEF Promoting
  <1>5. CASE Throws(r) /\ UNCHANGED result
    BY <1>1, <1>2, <1>5, ThrowKeepsLibrary
  <1>6. ASSUME NEW f \in ByKey(r), promotion' = [promotion EXCEPT ![r] = "reusing"],
               staging' = staging \ {r}, result' = [result EXCEPT ![r] = f]
        PROVE  LibraryIInv'
    <2>1. MayMove(r, "reusing")
      BY <1>4 DEF MayMove, PromotionStages, Holding, Ended
    <2>2. StagingFollows
      BY <1>4, <1>6, StagingOfMove
    <2>3. f \in index.in /\ f \in Requests /\ ArtifactKey[f] = ArtifactKey[r]
      BY <1>4, FoundIsIndexed
    <2>4. ResultsFollow
      <3>1. result \in [Requests -> Requests \cup {NoArtifact}] /\ promotion \in [Requests -> PromotionStages]
        BY LibraryTypes
      <3>2. result' \in [Requests -> Requests \cup {NoArtifact}]
        BY <1>6, <2>3, <3>1
      <3>3. jobFile' \in [Requests -> Requests \cup {NoArtifact}]
        BY <1>4, LibraryTypes
      <3>4. result'[r] = f /\ \A q \in Requests \ {r} : result'[q] = result[q] /\ promotion'[q] = promotion[q]
        BY <1>6, <3>1
      <3>5. \A q \in Requests :
              /\ result[q] # NoArtifact => result[q] \in Requests /\ ArtifactKey[result[q]] = ArtifactKey[q]
              /\ jobFile[q] # NoArtifact => ArtifactKey[jobFile[q]] = ArtifactKey[q]
              /\ promotion[q] = "reusing" => result[q] \in index.in
        BY DEF LibraryIInv, FilesArePromoted, PlansStayValid
      <3> QED
        BY <1>4, <2>3, <3>2, <3>3, <3>4, <3>5 DEF ResultsFollow
    <2> QED
      BY <1>1, <1>2, <1>3, <1>4, <1>6, <2>1, <2>2, <2>4, MovesKeepLibrary
  <1>7. CASE ByKey(r) = {} /\ promotion' = [promotion EXCEPT ![r] = "measured"] /\ UNCHANGED <<staging, result>>
    <2>1. \A f \in index.in : ArtifactKey[f] # ArtifactKey[r]
      BY <1>4, <1>7 DEF ByKey, LibraryIInv, RowsAreLoaded, FilesAreKnown
    <2>2. MayMove(r, "measured")
      BY <1>4, <2>1 DEF MayMove, PromotionStages, Holding, Ended
    <2>3. StagingFollows
      BY <1>4, <1>7, StagingOfMove
    <2>4. ResultsFollow
      BY <1>4, <1>7, UntouchedResults
    <2> QED
      BY <1>1, <1>2, <1>3, <1>4, <1>7, <2>2, <2>3, <2>4, MovesKeepLibrary
  <1> QED
    BY <1>5, <1>6, <1>7 DEF LookUp

LEMMA ReuseKeepsLibrary ==
  ASSUME LibraryIInv, NEW r \in Requests, Reuse(r)
  PROVE  LibraryIInv'
  <1> DEFINE x == Linked(index, result[r], ProjectOf[r])
  <1>1. Promoting(r, "reusing") /\ UNCHANGED <<files, evicting, result>>
    BY DEF Reuse
  <1>2. up /\ up' = up /\ promotion[r] = "reusing" /\ jobFile' = jobFile
    BY <1>1 DEF Promoting
  <1>3. result[r] \in index.in /\ ProjectOf[r] \in Projects
    BY <1>2, RequestTypes DEF LibraryIInv, PlansStayValid
  <1>4. CASE Throws(r) /\ UNCHANGED <<index, rows, writeFailures>>
    <2>1. SameBooks
      BY <1>1, <1>4, UntouchedBooks
    <2> QED
      BY <1>1, <1>4, <2>1, ThrowKeepsLibrary
  <1>5. CASE index' = x /\ Persisted(x) /\ promotion' = [promotion EXCEPT ![r] = "returned"] /\ UNCHANGED staging
    <2>1. SameBooks
      BY <1>1, <1>2, <1>3, <1>5, LinkKeepsBooks DEF Persisted
    <2>2. MayMove(r, "returned")
      BY <1>2 DEF MayMove, PromotionStages, Holding, Ended
    <2>3. StagingFollows
      BY <1>2, <1>5, StagingOfMove
    <2>4. ResultsFollow
      BY <1>1, <1>2, <1>5, UntouchedResults
    <2>5. CountsAreTyped
      BY <1>1, <1>5, UntouchedCounts DEF Promoting, Persisted
    <2> QED
      BY <1>1, <1>2, <1>5, <2>1, <2>2, <2>3, <2>4, <2>5, MovesKeepLibrary
  <1>6. CASE index' = x /\ PersistFails /\ Throws(r)
    <2>1. SameBooks
      BY <1>1, <1>2, <1>3, <1>6, LinkKeepsBooks DEF PersistFails
    <2> QED
      BY <1>1, <1>6, <2>1, ThrowKeepsLibrary
  <1> QED
    BY <1>4, <1>5, <1>6 DEF Reuse

LEMMA CheckQuotaKeepsLibrary ==
  ASSUME LibraryIInv, NEW r \in Requests, CheckQuota(r)
  PROVE  LibraryIInv'
  <1>1. Promoting(r, "measured") /\ UNCHANGED <<index, rows, files, evicting, result, writeFailures>>
    BY DEF CheckQuota
  <1>2. SameBooks
    BY <1>1, UntouchedBooks
  <1>3. CASE Throws(r)
    BY <1>1, <1>2, <1>3, ThrowKeepsLibrary
  <1>4. CASE promotion' = [promotion EXCEPT ![r] = "hashed"] /\ UNCHANGED staging
    <2>1. up /\ up' = up /\ promotion[r] = "measured" /\ jobFile' = jobFile
      BY <1>1 DEF Promoting
    <2>2. MayMove(r, "hashed")
      BY <2>1 DEF MayMove, PromotionStages, Holding, Ended, LibraryIInv, PlansStayValid
    <2>3. StagingFollows
      BY <1>4, <2>1, StagingOfMove
    <2>4. ResultsFollow
      BY <1>1, <1>4, <2>1, UntouchedResults
    <2>5. CountsAreTyped
      BY <1>1, UntouchedCounts DEF Promoting
    <2> QED
      BY <1>1, <1>2, <1>4, <2>1, <2>2, <2>3, <2>4, <2>5, MovesKeepLibrary
  <1> QED
    BY <1>3, <1>4 DEF CheckQuota
LEMMA FinishKeepsLibrary ==
  ASSUME LibraryIInv, NEW r \in Requests, Finish(r)
  PROVE  LibraryIInv'
  <1>1. /\ up /\ up' = up /\ promotion[r] = "returned" /\ promotion' = [promotion EXCEPT ![r] = "done"]
        /\ jobFile' = [jobFile EXCEPT ![r] = result[r]]
        /\ UNCHANGED <<index, rows, files, staging, evicting, result, aborted, writeFailures, libraryCrashes>>
    BY DEF Finish
  <1>2. MayMove(r, "done")
    BY <1>1 DEF MayMove, PromotionStages, Holding, Ended
  <1>3. SameBooks
    BY <1>1, UntouchedBooks
  <1>4. StagingFollows
    BY <1>1, StagingOfMove
  <1>5. CountsAreTyped
    BY <1>1, UntouchedCounts
  <1>6. ResultsFollow
    <2>1. /\ result \in [Requests -> Requests \cup {NoArtifact}] /\ promotion \in [Requests -> PromotionStages]
          /\ jobFile \in [Requests -> Requests \cup {NoArtifact}]
      BY LibraryTypes
    <2>2. result[r] \in Requests \cup {NoArtifact}
      BY <2>1
    <2>3. jobFile' \in [Requests -> Requests \cup {NoArtifact}]
      BY <1>1, <2>1, <2>2
    <2>4. /\ jobFile'[r] = result[r] /\ promotion'[r] = "done"
          /\ \A q \in Requests \ {r} : jobFile'[q] = jobFile[q] /\ promotion'[q] = promotion[q]
      BY <1>1, <2>1
    <2>5. \A q \in Requests :
            /\ result[q] # NoArtifact => result[q] \in Requests /\ ArtifactKey[result[q]] = ArtifactKey[q]
            /\ jobFile[q] # NoArtifact => ArtifactKey[jobFile[q]] = ArtifactKey[q]
            /\ promotion[q] = "reusing" => result[q] \in index.in
      BY DEF LibraryIInv, FilesArePromoted, PlansStayValid
    <2> QED
      BY <1>1, <2>1, <2>3, <2>4, <2>5 DEF ResultsFollow
  <1> QED
    BY <1>1, <1>2, <1>3, <1>4, <1>5, <1>6, MovesKeepLibrary

(* Only links change and no promotion moves.                               *)
LEMMA LinkingKeepsLibrary ==
  ASSUME LibraryIInv, SameBooks, CountsAreTyped,
         UNCHANGED <<up, staging, promotion, evicting, result, jobFile>>
  PROVE  LibraryIInv'
  <1>1. LibraryTypeOK'
    BY LibraryTypes DEF LibraryIInv, LibraryTypeOK, SameBooks, GoodIndex, CountsAreTyped
  <1>2. ChainIsHeldOnce' /\ FilesArePromoted' /\ RowsAreLoaded' /\ FilesAreKnown' /\ OneArtifactPerKey'
    BY DEF LibraryIInv, SameBooks, ChainIsHeldOnce, FilesArePromoted, RowsAreLoaded, FilesAreKnown, OneArtifactPerKey
  <1>3. PlansStayValid' /\ QuotaHolds'
    BY DEF LibraryIInv, SameBooks, PlansStayValid, QuotaHolds, Fits, Bytes
  <1> QED
    BY <1>1, <1>2, <1>3 DEF LibraryIInv

LEMMA EnqueueCachedKeepsLibrary ==
  ASSUME LibraryIInv, NEW r \in Requests, EnqueueCached(r)
  PROVE  LibraryIInv'
  <1>1. /\ up /\ up' = up /\ promotion[r] = "idle"
        /\ UNCHANGED <<files, staging, evicting, result, aborted, libraryCrashes>>
    BY DEF EnqueueCached
  <1>2. PICK f \in ByKey(r) :
          /\ index' = Linked(index, f, ProjectOf[r])
          /\ \/ /\ IF index' = index THEN UNCHANGED <<rows, writeFailures>> ELSE Persisted(index')
                /\ promotion' = [promotion EXCEPT ![r] = "done"]
                /\ jobFile' = [jobFile EXCEPT ![r] = f]
             \/ PersistFails /\ UNCHANGED <<promotion, jobFile>>
    BY DEF EnqueueCached
  <1>3. f \in index.in /\ f \in Requests /\ ArtifactKey[f] = ArtifactKey[r]
    BY <1>1, FoundIsIndexed
  <1>4. ProjectOf[r] \in Projects
    BY RequestTypes
  <1>5. rows' = index' \/ rows' = rows
    BY <1>2 DEF Persisted, PersistFails
  <1>6. SameBooks
    BY <1>1, <1>2, <1>3, <1>4, <1>5, LinkKeepsBooks
  <1>7. CountsAreTyped
    BY <1>1, <1>2, UntouchedCounts DEF Persisted
  <1>8. CASE promotion' = [promotion EXCEPT ![r] = "done"] /\ jobFile' = [jobFile EXCEPT ![r] = f]
    <2>1. MayMove(r, "done")
      BY <1>1 DEF MayMove, PromotionStages, Holding, Ended
    <2>2. StagingFollows
      BY <1>1, <1>8, StagingOfMove
    <2>3. ResultsFollow
      <3>1. /\ result \in [Requests -> Requests \cup {NoArtifact}] /\ promotion \in [Requests -> PromotionStages]
            /\ jobFile \in [Requests -> Requests \cup {NoArtifact}]
        BY LibraryTypes
      <3>2. jobFile' \in [Requests -> Requests \cup {NoArtifact}]
        BY <1>3, <1>8, <3>1
      <3>3. /\ jobFile'[r] = f /\ promotion'[r] = "done"
            /\ \A q \in Requests \ {r} : jobFile'[q] = jobFile[q] /\ promotion'[q] = promotion[q]
        BY <1>8, <3>1
      <3>4. \A q \in Requests :
              /\ result[q] # NoArtifact => result[q] \in Requests /\ ArtifactKey[result[q]] = ArtifactKey[q]
              /\ jobFile[q] # NoArtifact => ArtifactKey[jobFile[q]] = ArtifactKey[q]
              /\ promotion[q] = "reusing" => result[q] \in index.in
        BY DEF LibraryIInv, FilesArePromoted, PlansStayValid
      <3> QED
        BY <1>1, <1>3, <3>1, <3>2, <3>3, <3>4 DEF ResultsFollow
    <2> QED
      BY <1>1, <1>6, <1>7, <1>8, <2>1, <2>2, <2>3, MovesKeepLibrary
  <1>9. CASE UNCHANGED <<promotion, jobFile>>
    BY <1>1, <1>6, <1>7, <1>9, LinkingKeepsLibrary
  <1> QED
    BY <1>2, <1>8, <1>9

(* A set that fits keeps fitting when it shrinks.                          *)
LEMMA FitsLess ==
  ASSUME NEW F \in SUBSET Requests, NEW E \in SUBSET F, NEW more \in Nat, Fits(F, more)
  PROVE  Fits(E, more)
  <1>1. Bytes(F) \in Nat /\ Bytes(E) <= Bytes(F)
    BY BytesAdd
  <1>2. Bytes(E) \in Nat
    BY BytesAdd
  <1> QED
    BY <1>1, <1>2, QuotaAssumption DEF Fits

(* A set and one file more fit when the file fits with the set.            *)
LEMMA FitsOneMore ==
  ASSUME NEW F \in SUBSET Requests, NEW r \in Requests \ F, Fits(F, SizeOf[r])
  PROVE  Fits(F \cup {r}, 0)
  <1>1. Bytes(F) \in Nat /\ Bytes(F \cup {r}) = Bytes(F) + SizeOf[r]
    BY BytesAdd
  <1>2. SizeOf[r] \in Nat
    BY RequestTypes
  <1> QED
    BY <1>1, <1>2, QuotaAssumption DEF Fits

(* A promotion that has the chain is alone with what it planned.           *)
LEMMA HolderIsAlone ==
  ASSUME LibraryIInv, NEW r \in Requests, promotion[r] \in Holding
  PROVE  /\ \A q \in Requests \ {r} : promotion[q] \notin Holding /\ evicting[q] = {}
         /\ up => index.in = rows.in /\ index.pinned = rows.pinned
         /\ up /\ promotion[r] # "renamed" => files = index.in
         /\ up /\ promotion[r] = "renamed" =>
              /\ files = index.in \cup {r} /\ r \notin index.in
              /\ evicting[r] \subseteq index.in \ index.pinned
              /\ Fits(index.in \ evicting[r], SizeOf[r])
              /\ \A f \in index.in : ArtifactKey[f] # ArtifactKey[r]
  <1>1. \A q \in Requests \ {r} : promotion[q] \notin Holding
    BY DEF LibraryIInv, ChainIsHeldOnce
  <1>2. \A q \in Requests \ {r} : evicting[q] = {}
    BY <1>1 DEF LibraryIInv, PlansStayValid, Holding
  <1>3. up => files = index.in \cup {q \in Requests : promotion[q] = "renamed"}
    BY DEF LibraryIInv, FilesAreKnown
  <1>4. \A q \in Requests : promotion[q] = "renamed" => q = r
    BY <1>1 DEF Holding
  <1>5. up => index.in = rows.in /\ index.pinned = rows.pinned
    BY DEF LibraryIInv, RowsAreLoaded
  <1>6. promotion[r] = "renamed" =>
              /\ r \notin index.in
              /\ evicting[r] \subseteq index.in \ index.pinned
              /\ Fits(index.in \ evicting[r], SizeOf[r])
              /\ \A f \in index.in : ArtifactKey[f] # ArtifactKey[r]
    BY DEF LibraryIInv, PlansStayValid, FilesArePromoted
  <1>7. up /\ promotion[r] # "renamed" => files = index.in
    BY <1>3, <1>4
  <1>8. up /\ promotion[r] = "renamed" => files = index.in \cup {r}
    BY <1>3, <1>4
  <1> QED
    BY <1>1, <1>2, <1>5, <1>6, <1>7, <1>8

LEMMA PlanAndRenameKeepsLibrary ==
  ASSUME LibraryIInv, NEW r \in Requests, PlanAndRename(r)
  PROVE  LibraryIInv'
  <1>1. Promoting(r, "hashed") /\ UNCHANGED <<index, rows, result, writeFailures>>
    BY DEF PlanAndRename
  <1>2. up /\ up' = up /\ promotion[r] = "hashed" /\ UNCHANGED <<aborted, jobFile, libraryCrashes>>
    BY <1>1 DEF Promoting
  <1>3. CASE Throws(r) /\ UNCHANGED <<files, evicting>>
    <2>1. SameBooks
      BY <1>1, <1>3, UntouchedBooks
    <2> QED
      BY <1>1, <1>3, <2>1, ThrowKeepsLibrary
  <1>4. ASSUME NEW E \in SufficientPlans(index, SizeOf[r], ArtifactKey[r]),
               evicting' = [evicting EXCEPT ![r] = E], files' = FilesAfterPlan(r, E),
               promotion' = [promotion EXCEPT ![r] = "renamed"], staging' = staging \ {r}
        PROVE  LibraryIInv'
    <2>1. /\ GoodIndex(index) /\ GoodIndex(rows)
          /\ index.in \subseteq Requests /\ files \subseteq Requests /\ staging \subseteq Requests
          /\ promotion \in [Requests -> PromotionStages] /\ evicting \in [Requests -> SUBSET Requests]
      BY LibraryTypes
    <2>2. \A q \in Requests \ {r} : promotion[q] \notin Holding /\ evicting[q] = {}
      BY <1>2, HolderIsAlone DEF Holding
    <2>3. files = index.in /\ index.in = rows.in /\ index.pinned = rows.pinned
      BY <1>2, HolderIsAlone DEF Holding
    <2>4. E \subseteq index.in \ index.pinned /\ Fits(index.in \ E, SizeOf[r])
      BY <2>3 DEF SufficientPlans, EvictionPlans
    <2>5. promotion'[r] = "renamed" /\ \A q \in Requests \ {r} : promotion'[q] = promotion[q]
      BY <1>4, <2>1
    <2>6. evicting'[r] = E /\ \A q \in Requests \ {r} : evicting'[q] = evicting[q]
      BY <1>4, <2>1
    <2>7. promotion' \in [Requests -> PromotionStages] /\ evicting' \in [Requests -> SUBSET Requests]
      <3>1. "renamed" \in PromotionStages
        BY DEF PromotionStages, Holding
      <3>2. E \in SUBSET Requests
        BY <2>1, <2>4
      <3> QED
        BY <1>4, <2>1, <3>1, <3>2
    <2>8. files' = index.in \cup {r}
      BY <1>4, <2>3 DEF FilesAfterPlan
    <2>9. \A f \in index.in : ArtifactKey[f] # ArtifactKey[r]
      BY <1>2 DEF LibraryIInv, PlansStayValid
    <2>10. r \notin index.in
      BY <2>9
    <2>11. LibraryTypeOK'
      BY <1>1, <1>2, <1>4, <2>1, <2>7, <2>8, LibraryTypes DEF LibraryTypeOK, GoodIndex, WellFormed
    <2>12. ChainIsHeldOnce'
      BY <2>2, <2>5 DEF ChainIsHeldOnce
    <2>13. FilesArePromoted'
      BY <1>1, <1>2, <2>1, <2>2, <2>3, <2>5, <2>8, <2>10
         DEF LibraryIInv, FilesArePromoted, Holding, Ended
    <2>14. RowsAreLoaded'
      BY <1>1, <2>3 DEF RowsAreLoaded
    <2>15. FilesAreKnown'
      <3>1. {q \in Requests : promotion'[q] = "renamed"} = {r}
        BY <2>2, <2>5 DEF Holding
      <3>2. \A q \in staging' : promotion'[q] \in {"waiting", "opened", "measured", "hashed"}
        BY <1>2, <1>4, <2>1, <2>5 DEF LibraryIInv, FilesAreKnown
      <3> QED
        BY <1>1, <1>2, <2>3, <2>8, <3>1, <3>2 DEF FilesAreKnown
    <2>16. PlansStayValid'
      <3> SUFFICES ASSUME NEW q \in Requests
                   PROVE  /\ promotion'[q] \in {"measured", "hashed", "renamed"} =>
                               \A f \in index.in : ArtifactKey[f] # ArtifactKey[q]
                          /\ promotion'[q] = "reusing" => result[q] \in index.in
                          /\ evicting'[q] # {} => promotion'[q] = "renamed"
                          /\ promotion'[q] = "renamed" =>
                               /\ evicting'[q] \subseteq index.in \ index.pinned
                               /\ Fits(index.in \ evicting'[q], SizeOf[q])
        BY <1>1 DEF PlansStayValid, Fits, Bytes
      <3>1. CASE q = r
        BY <2>4, <2>5, <2>6, <2>9, <3>1
      <3>2. CASE q # r
        BY <2>2, <2>5, <2>6, <3>2 DEF Holding
      <3> QED
        BY <3>1, <3>2
    <2>17. QuotaHolds' /\ OneArtifactPerKey'
      BY <1>1, <1>2 DEF LibraryIInv, QuotaHolds, OneArtifactPerKey, Fits, Bytes
    <2> QED
      BY <2>11, <2>12, <2>13, <2>14, <2>15, <2>16, <2>17 DEF LibraryIInv
  <1> QED
    BY <1>3, <1>4 DEF PlanAndRename
(* What a promotion that commits makes of the index.                       *)
LEMMA ReplacedIndex ==
  ASSUME LibraryIInv, NEW r \in Requests, up, promotion[r] = "renamed"
  PROVE  /\ GoodIndex(Replaced(r))
         /\ Replaced(r).in = (index.in \ evicting[r]) \cup {r} /\ Replaced(r).pinned = index.pinned
  <1> DEFINE gone == evicting[r] \cup (index.in \ files)
  <1>1. GoodIndex(index)
    BY LibraryTypes
  <1>2. files = index.in \cup {r} /\ evicting[r] \subseteq index.in \ index.pinned
    BY HolderIsAlone DEF Holding
  <1>3. gone = evicting[r]
    BY <1>2
  <1> HIDE DEF gone
  <1>4. /\ GoodIndex(Without(index, gone)) /\ Without(index, gone).in = index.in \ gone
        /\ Without(index, gone).pinned = index.pinned \ gone
    BY <1>1, WithoutIndex
  <1>5. /\ GoodIndex(WithArtifact(Without(index, gone), r))
        /\ WithArtifact(Without(index, gone), r).in = (index.in \ gone) \cup {r}
        /\ WithArtifact(Without(index, gone), r).pinned = index.pinned \ gone
    BY <1>4, WithArtifactIndex
  <1>6. index.pinned \ gone = index.pinned
    BY <1>2, <1>3
  <1>7. Replaced(r) = WithArtifact(Without(index, gone), r)
    BY DEF Replaced, gone
  <1> QED
    BY <1>3, <1>5, <1>6, <1>7

(* The chain is free after the commit, whichever way it went.              *)
LEMMA AfterCommit ==
  ASSUME LibraryIInv, NEW r \in Requests, up, promotion[r] = "renamed", NEW s \in {"returned", "failed"},
         promotion' = [promotion EXCEPT ![r] = s], evicting' = [evicting EXCEPT ![r] = {}]
  PROVE  /\ promotion' \in [Requests -> PromotionStages] /\ evicting' \in [Requests -> SUBSET Requests]
         /\ promotion'[r] = s /\ \A q \in Requests \ {r} : promotion'[q] = promotion[q]
         /\ \A q \in Requests : promotion'[q] \notin Holding /\ evicting'[q] = {}
  <1>1. promotion \in [Requests -> PromotionStages] /\ evicting \in [Requests -> SUBSET Requests]
    BY LibraryTypes
  <1>2. s \in PromotionStages /\ s \notin Holding
    BY DEF PromotionStages, Ended, Holding
  <1>3. promotion' \in [Requests -> PromotionStages]
    BY <1>1, <1>2
  <1>4. evicting' \in [Requests -> SUBSET Requests]
    <2>1. {} \in SUBSET Requests
      OBVIOUS
    <2> QED
      BY <1>1, <2>1
  <1>5. promotion'[r] = s /\ evicting'[r] = {}
    BY <1>1
  <1>6. \A q \in Requests \ {r} : promotion'[q] = promotion[q] /\ evicting'[q] = evicting[q]
    BY <1>1
  <1>7. \A q \in Requests \ {r} : promotion[q] \notin Holding /\ evicting[q] = {}
    BY HolderIsAlone DEF Holding
  <1> QED
    BY <1>2, <1>3, <1>4, <1>5, <1>6, <1>7

LEMMA GiveUpKeepsLibrary ==
  ASSUME LibraryIInv, NEW r \in Requests, Promoting(r, "renamed"), Throws(r), files' = files \ {r},
         evicting' = [evicting EXCEPT ![r] = {}], UNCHANGED <<index, rows, result>>,
         UNCHANGED writeFailures \/ PersistFails
  PROVE  LibraryIInv'
  <1>1. up /\ up' = up /\ promotion[r] = "renamed" /\ UNCHANGED <<aborted, jobFile, libraryCrashes>>
    BY DEF Promoting
  <1>2. promotion' = [promotion EXCEPT ![r] = "failed"] /\ staging' = staging \ {r}
    BY DEF Throws
  <1>3. /\ promotion' \in [Requests -> PromotionStages] /\ evicting' \in [Requests -> SUBSET Requests]
        /\ promotion'[r] = "failed" /\ \A q \in Requests \ {r} : promotion'[q] = promotion[q]
        /\ \A q \in Requests : promotion'[q] \notin Holding /\ evicting'[q] = {}
    BY <1>1, <1>2, AfterCommit
  <1>4. files' = index.in /\ index.in = rows.in /\ index.pinned = rows.pinned /\ files' \subseteq files
    BY <1>1, HolderIsAlone DEF Holding
  <1>5. CountsAreTyped
    BY <1>1, UntouchedCounts
  <1>6. LibraryTypeOK'
    BY <1>1, <1>2, <1>3, <1>4, <1>5, LibraryTypes
       DEF LibraryTypeOK, GoodIndex, WellFormed, CountsAreTyped
  <1>7. ChainIsHeldOnce'
    BY <1>3 DEF ChainIsHeldOnce
  <1>8. FilesArePromoted'
    BY <1>1, <1>3, <1>4, LibraryTypes DEF LibraryIInv, FilesArePromoted, Holding, Ended
  <1>9. RowsAreLoaded'
    BY <1>4 DEF RowsAreLoaded
  <1>10. FilesAreKnown'
    <2>1. {q \in Requests : promotion'[q] = "renamed"} = {}
      BY <1>3 DEF Holding
    <2>2. \A q \in staging' : promotion'[q] \in {"waiting", "opened", "measured", "hashed"}
      BY <1>1, <1>2, <1>3, LibraryTypes DEF LibraryIInv, FilesAreKnown
    <2> QED
      BY <1>1, <1>4, <2>1, <2>2 DEF FilesAreKnown
  <1>11. PlansStayValid'
    BY <1>3 DEF PlansStayValid, Holding
  <1>12. QuotaHolds' /\ OneArtifactPerKey'
    BY <1>1 DEF LibraryIInv, QuotaHolds, OneArtifactPerKey, Fits, Bytes
  <1> QED
    BY <1>6, <1>7, <1>8, <1>9, <1>10, <1>11, <1>12 DEF LibraryIInv

(* The new record fits, and is the only one of its key.                    *)
LEMMA ReplacementFits ==
  ASSUME LibraryIInv, NEW r \in Requests, up, promotion[r] = "renamed"
  PROVE  /\ Fits((index.in \ evicting[r]) \cup {r}, 0)
         /\ Fits(index.pinned, 0)
         /\ \A f, g \in (index.in \ evicting[r]) \cup {r} : f # g => ArtifactKey[f] # ArtifactKey[g]
  <1> DEFINE F == index.in \ evicting[r]
  <1>1. /\ files = index.in \cup {r} /\ r \notin index.in
        /\ evicting[r] \subseteq index.in \ index.pinned
        /\ Fits(F, SizeOf[r])
        /\ \A f \in index.in : ArtifactKey[f] # ArtifactKey[r]
        /\ index.in = rows.in /\ index.pinned = rows.pinned
    BY HolderIsAlone DEF Holding
  <1>2. F \in SUBSET Requests /\ r \in Requests \ F
    BY <1>1, LibraryTypes
  <1>3. \A f, g \in index.in : f # g => ArtifactKey[f] # ArtifactKey[g]
    BY <1>1 DEF LibraryIInv, OneArtifactPerKey
  <1>4. \A f, g \in F \cup {r} : f # g => ArtifactKey[f] # ArtifactKey[g]
    BY <1>1, <1>3
  <1>5. Fits(index.pinned, 0)
    BY <1>1 DEF LibraryIInv, QuotaHolds
  <1> HIDE DEF F
  <1>6. Fits(F \cup {r}, 0)
    BY <1>1, <1>2, FitsOneMore
  <1> QED
    BY <1>4, <1>5, <1>6 DEF F

LEMMA CommitKeepsLibrary ==
  ASSUME LibraryIInv, NEW r \in Requests, Commit(r)
  PROVE  LibraryIInv'
  <1>1. Promoting(r, "renamed") /\ evicting' = [evicting EXCEPT ![r] = {}]
    BY DEF Commit
  <1>2. up /\ up' = up /\ promotion[r] = "renamed" /\ UNCHANGED <<aborted, jobFile, libraryCrashes>>
    BY <1>1 DEF Promoting
  <1>3. CASE Throws(r) /\ files' = files \ {r} /\ UNCHANGED <<index, rows, writeFailures, result>>
    BY <1>1, <1>3, GiveUpKeepsLibrary
  <1>4. CASE PersistFails /\ Throws(r) /\ files' = files \ {r} /\ UNCHANGED <<index, result>>
    <2>1. UNCHANGED rows
      BY <1>4 DEF PersistFails
    <2> QED
      BY <1>1, <1>4, <2>1, GiveUpKeepsLibrary
  <1>5. CASE /\ index' = Replaced(r) /\ Persisted(Replaced(r)) /\ files' = files \ evicting[r]
             /\ promotion' = [promotion EXCEPT ![r] = "returned"] /\ result' = [result EXCEPT ![r] = r]
             /\ UNCHANGED staging
    <2> DEFINE In == (index.in \ evicting[r]) \cup {r}
    <2>1. /\ promotion' \in [Requests -> PromotionStages] /\ evicting' \in [Requests -> SUBSET Requests]
          /\ promotion'[r] = "returned" /\ \A q \in Requests \ {r} : promotion'[q] = promotion[q]
          /\ \A q \in Requests : promotion'[q] \notin Holding /\ evicting'[q] = {}
      BY <1>1, <1>2, <1>5, AfterCommit
    <2>2. GoodIndex(Replaced(r)) /\ Replaced(r).in = In /\ Replaced(r).pinned = index.pinned
      BY <1>2, ReplacedIndex
    <2>3. files' = In /\ In \subseteq files /\ In \subseteq Requests
      BY <1>2, <1>5, HolderIsAlone, LibraryTypes DEF Holding
    <2>4. /\ Fits(In, 0) /\ Fits(index.pinned, 0)
          /\ \A f, g \in In : f # g => ArtifactKey[f] # ArtifactKey[g]
      BY <1>2, ReplacementFits
    <2>5. In \subseteq index.in \cup {r} /\ index.in = rows.in
      BY <1>2, HolderIsAlone DEF Holding
    <2> HIDE DEF In
    <2>6. /\ index'.in = In /\ rows'.in = In /\ index'.pinned = index.pinned /\ rows'.pinned = index.pinned
          /\ GoodIndex(index') /\ GoodIndex(rows')
      BY <1>5, <2>2 DEF Persisted, GoodIndex, WellFormed
    <2>7. result' \in [Requests -> Requests \cup {NoArtifact}]
      <3>1. result \in [Requests -> Requests \cup {NoArtifact}]
        BY LibraryTypes
      <3> QED
        BY <1>5, <3>1
    <2>8. /\ result'[r] = r
          /\ \A q \in Requests \ {r} : result'[q] = result[q]
      <3>1. result \in [Requests -> Requests \cup {NoArtifact}]
        BY LibraryTypes
      <3> QED
        BY <1>5, <3>1
    <2>9. CountsAreTyped
      BY <1>2, <1>5, UntouchedCounts DEF Persisted
    <2>10. LibraryTypeOK'
      BY <1>2, <1>5, <2>1, <2>3, <2>6, <2>7, <2>9, LibraryTypes
         DEF LibraryIInv, LibraryTypeOK, GoodIndex, CountsAreTyped
    <2>11. ChainIsHeldOnce'
      BY <2>1 DEF ChainIsHeldOnce
    <2>12. FilesArePromoted'
      <3>1. \A q \in files \ {r} : promotion'[q] \in {"renamed", "returned"} \cup Ended
        BY <2>1, LibraryTypes DEF LibraryIInv, FilesArePromoted
      <3>2. \A q \in index.in \ {r} : promotion'[q] \in {"returned"} \cup Ended
        BY <2>1, <2>5, LibraryTypes DEF LibraryIInv, FilesArePromoted
      <3>3. \A q \in Requests :
              result'[q] # NoArtifact => result'[q] \in Requests /\ ArtifactKey[result'[q]] = ArtifactKey[q]
        BY <2>8 DEF LibraryIInv, FilesArePromoted
      <3>4. \A q \in Requests : jobFile'[q] # NoArtifact => ArtifactKey[jobFile'[q]] = ArtifactKey[q]
        BY <1>2 DEF LibraryIInv, FilesArePromoted
      <3>5. \A q \in Requests : promotion'[q] # "renamed"
        BY <2>1 DEF Holding
      <3> QED
        BY <2>1, <2>3, <2>5, <2>6, <3>1, <3>2, <3>3, <3>4, <3>5 DEF FilesArePromoted
    <2>13. RowsAreLoaded'
      BY <2>6 DEF RowsAreLoaded
    <2>14. FilesAreKnown'
      <3>1. {q \in Requests : promotion'[q] = "renamed"} = {}
        BY <2>1 DEF Holding
      <3>2. \A q \in staging' : promotion'[q] \in {"waiting", "opened", "measured", "hashed"}
        BY <1>2, <1>5, <2>1, LibraryTypes DEF LibraryIInv, FilesAreKnown
      <3> QED
        BY <1>2, <2>3, <2>6, <3>1, <3>2 DEF FilesAreKnown
    <2>15. PlansStayValid'
      BY <2>1 DEF PlansStayValid, Holding
    <2>16. QuotaHolds' /\ OneArtifactPerKey'
      BY <2>4, <2>6 DEF QuotaHolds, OneArtifactPerKey, Fits, Bytes
    <2> QED
      BY <2>10, <2>11, <2>12, <2>13, <2>14, <2>15, <2>16 DEF LibraryIInv
  <1> QED
    BY <1>3, <1>4, <1>5 DEF Commit
LEMMA SetPinnedKeepsLibrary ==
  ASSUME LibraryIInv, NEW X, NEW value \in BOOLEAN, SetPinned(X, value)
  PROVE  LibraryIInv'
  <1> DEFINE x == Pinned(index, X, value)
  <1>1. /\ up /\ ChainIsFree /\ X \in SUBSET index.in
        /\ UNCHANGED <<up, files, staging, promotion, evicting, result, aborted, jobFile, libraryCrashes>>
    BY DEF SetPinned
  <1>2. (index' = x /\ Persisted(x)) \/ (index' = index /\ PersistFails)
    BY DEF SetPinned, RolledBack
  <1>3. CASE index' = index /\ PersistFails
    <2>1. SameBooks
      BY <1>1, <1>3, UntouchedBooks DEF PersistFails
    <2>2. CountsAreTyped
      BY <1>1, <1>3, UntouchedCounts
    <2> QED
      BY <1>1, <2>1, <2>2, LinkingKeepsLibrary
  <1>4. CASE index' = x /\ Persisted(x)
    <2>1. GoodIndex(index)
      BY LibraryTypes
    <2>2. GoodIndex(x) /\ x.in = index.in
      BY <1>1, <2>1, PinnedIndex
    <2> HIDE DEF x
    <2>3. index' = x /\ rows' = x /\ writeFailures' = writeFailures
      BY <1>4 DEF Persisted
    <2>4. \A q \in Requests : promotion[q] \notin Holding /\ evicting[q] = {}
      BY <1>1 DEF ChainIsFree, LibraryIInv, PlansStayValid, Holding
    <2>5. index.in = rows.in /\ index.in \subseteq Requests /\ Fits(index.in, 0)
      BY <1>1, LibraryTypes DEF LibraryIInv, RowsAreLoaded, QuotaHolds
    <2>6. x.pinned \subseteq index.in
      BY <2>2 DEF GoodIndex, WellFormed
    <2>7. Fits(x.pinned, 0)
      BY <2>5, <2>6, FitsLess
    <2>8. LibraryTypeOK'
      BY <1>1, <2>2, <2>3, LibraryTypes DEF LibraryIInv, LibraryTypeOK, GoodIndex, WellFormed
    <2>9. ChainIsHeldOnce' /\ FilesArePromoted' /\ RowsAreLoaded' /\ FilesAreKnown' /\ OneArtifactPerKey'
      BY <1>1, <2>2, <2>3, <2>5
         DEF LibraryIInv, ChainIsHeldOnce, FilesArePromoted, RowsAreLoaded, FilesAreKnown, OneArtifactPerKey
    <2>10. PlansStayValid'
      BY <1>1, <2>4 DEF PlansStayValid, Holding
    <2>11. QuotaHolds'
      BY <1>1, <2>2, <2>3, <2>5, <2>7 DEF QuotaHolds, Fits, Bytes
    <2> QED
      BY <2>8, <2>9, <2>10, <2>11 DEF LibraryIInv
  <1> QED
    BY <1>2, <1>3, <1>4

(* The process dies: the rows it leaves name files, one for a key, and the *)
(* pinned among them fit.                                                  *)
LEMMA DeathKeepsLibrary ==
  ASSUME LibraryIInv, Dies, files' = files, GoodIndex(rows'), rows'.in \subseteq files,
         Fits(rows.pinned, 0) => Fits(rows'.pinned, 0),
         \A f, g \in rows'.in : f # g => ArtifactKey[f] # ArtifactKey[g]
  PROVE  LibraryIInv'
  <1>1. /\ up' = FALSE /\ index' = Empty
        /\ libraryCrashes < MaxLibraryCrashes /\ libraryCrashes' = libraryCrashes + 1
        /\ promotion' = [r \in Requests |-> IF promotion[r] \in {"idle", "done"} THEN promotion[r] ELSE "failed"]
        /\ evicting' = [r \in Requests |-> {}]
        /\ result' = [r \in Requests |-> NoArtifact]
        /\ UNCHANGED <<staging, jobFile, aborted, writeFailures>>
    BY DEF Dies
  <1>2. \A q \in Requests :
          /\ promotion'[q] \in {"idle", "done", "failed"}
          /\ promotion[q] # "idle" => promotion'[q] \in Ended
          /\ evicting'[q] = {} /\ result'[q] = NoArtifact
    BY <1>1 DEF Ended
  <1>3. promotion' \in [Requests -> PromotionStages]
    BY <1>1 DEF PromotionStages, Ended
  <1>4. evicting' \in [Requests -> SUBSET Requests] /\ result' \in [Requests -> Requests \cup {NoArtifact}]
    BY <1>1
  <1>5. libraryCrashes' \in 0..MaxLibraryCrashes
    BY <1>1, LibraryTypes, LibraryAssumption
  <1>6. Empty \in Index /\ WellFormed(Empty) /\ Empty.in = {} /\ Empty.pinned = {}
    BY DEF Empty, Index, WellFormed
  <1>7. LibraryTypeOK'
    BY <1>1, <1>3, <1>4, <1>5, <1>6, LibraryTypes DEF LibraryTypeOK, GoodIndex, WellFormed
  <1>8. ChainIsHeldOnce'
    BY <1>2 DEF ChainIsHeldOnce, Holding
  <1>9. FilesArePromoted'
    <2>1. \A q \in files : promotion'[q] \in Ended
      BY <1>2, LibraryTypes DEF LibraryIInv, FilesArePromoted, Ended
    <2>2. \A q \in Requests : jobFile'[q] # NoArtifact => ArtifactKey[jobFile'[q]] = ArtifactKey[q]
      BY <1>1 DEF LibraryIInv, FilesArePromoted
    <2> QED
      BY <1>2, <2>1, <2>2 DEF FilesArePromoted
  <1>10. RowsAreLoaded' /\ FilesAreKnown'
    BY <1>1, <1>2 DEF RowsAreLoaded, FilesAreKnown
  <1>11. PlansStayValid'
    BY <1>2 DEF PlansStayValid
  <1>12. QuotaHolds' /\ OneArtifactPerKey'
    BY <1>1 DEF LibraryIInv, QuotaHolds, OneArtifactPerKey, Fits, Bytes
  <1> QED
    BY <1>7, <1>8, <1>9, <1>10, <1>11, <1>12 DEF LibraryIInv

LEMMA LibraryCrashKeepsLibrary ==
  ASSUME LibraryIInv, LibraryCrash
  PROVE  LibraryIInv'
  <1>1. Dies /\ rows' = rows /\ files' = files
    BY DEF LibraryCrash
  <1>2. GoodIndex(rows') /\ rows'.in \subseteq files
    BY <1>1, LibraryTypes DEF LibraryIInv, FilesAreKnown, GoodIndex, WellFormed
  <1>3. \A f, g \in rows'.in : f # g => ArtifactKey[f] # ArtifactKey[g]
    BY <1>1 DEF LibraryIInv, OneArtifactPerKey
  <1>4. Fits(rows.pinned, 0) => Fits(rows'.pinned, 0)
    BY <1>1
  <1> QED
    BY <1>1, <1>2, <1>3, <1>4, DeathKeepsLibrary

LEMMA CrashWhileEvictingKeepsLibrary ==
  ASSUME LibraryIInv, NEW r \in Requests, CrashWhileEvicting(r)
  PROVE  LibraryIInv'
  <1>1. up /\ promotion[r] = "renamed" /\ Dies /\ rows' = Replaced(r) /\ files' = files
    BY DEF CrashWhileEvicting
  <1>2. /\ GoodIndex(Replaced(r))
        /\ Replaced(r).in = (index.in \ evicting[r]) \cup {r} /\ Replaced(r).pinned = index.pinned
    BY <1>1, ReplacedIndex
  <1>3. (index.in \ evicting[r]) \cup {r} \subseteq files
    BY <1>1, HolderIsAlone DEF Holding
  <1>4. /\ Fits(index.pinned, 0)
        /\ \A f, g \in (index.in \ evicting[r]) \cup {r} : f # g => ArtifactKey[f] # ArtifactKey[g]
    BY <1>1, ReplacementFits
  <1>5. GoodIndex(rows') /\ rows'.in \subseteq files
    BY <1>1, <1>2, <1>3 DEF GoodIndex, WellFormed
  <1>6. Fits(rows.pinned, 0) => Fits(rows'.pinned, 0)
    BY <1>1, <1>2, <1>4
  <1>7. \A f, g \in rows'.in : f # g => ArtifactKey[f] # ArtifactKey[g]
    BY <1>1, <1>2, <1>4
  <1> QED
    BY <1>1, <1>5, <1>6, <1>7, DeathKeepsLibrary

(* What a start makes of the finished jobs: a record more for each key     *)
(* that had none, of a file that is there.                                 *)
FirstHolders(first) ==
  first \in [Unindexed -> Requests] /\ \A k \in Unindexed : first[k] \in Holders(k)

LEMMA RegisteredIndex ==
  ASSUME LibraryIInv, NEW first, FirstHolders(first)
  PROVE  /\ GoodIndex(Registered(first))
         /\ rows.in \subseteq Registered(first).in /\ Registered(first).in \subseteq files
         /\ Registered(first).pinned = rows.pinned
         /\ \A f, g \in Registered(first).in : f # g => ArtifactKey[f] # ArtifactKey[g]
  <1> DEFINE new == {jobFile[first[k]] : k \in Unindexed}
             known == rows.in \cup new
             all == {<<f, ProjectOf[r]>> : f \in known \cap files, r \in Requests}
             owed == {l \in all : \E r \in Holders(ArtifactKey[l[1]]) : ProjectOf[r] = l[2]}
             y == Registered(first)
  <1>1. /\ GoodIndex(rows) /\ rows.in \subseteq Requests /\ files \subseteq Requests
        /\ jobFile \in [Requests -> Requests \cup {NoArtifact}]
    BY LibraryTypes
  <1>2. rows.in \subseteq files
    BY DEF LibraryIInv, FilesAreKnown
  <1>3. ASSUME NEW k \in Unindexed
        PROVE  /\ first[k] \in Requests /\ jobFile[first[k]] \in files
               /\ ArtifactKey[jobFile[first[k]]] = k
               /\ \A f \in rows.in : ArtifactKey[f] # k
    <2>1. first[k] \in Requests /\ jobFile[first[k]] \in files /\ ArtifactKey[first[k]] = k
      BY DEF FirstHolders, Holders
    <2>2. jobFile[first[k]] # NoArtifact
      BY <1>1, <2>1, RequestTypes
    <2>3. ArtifactKey[jobFile[first[k]]] = ArtifactKey[first[k]]
      BY <2>1, <2>2 DEF LibraryIInv, FilesArePromoted
    <2>4. \A f \in rows.in : ArtifactKey[f] # k
      BY <1>2 DEF Unindexed, Indexed
    <2> QED
      BY <2>1, <2>3, <2>4
  <1>4. new \subseteq files
    BY <1>3
  <1>5. \A f \in new : \A g \in rows.in : ArtifactKey[f] # ArtifactKey[g]
    BY <1>3
  <1>6. \A f, g \in new : f # g => ArtifactKey[f] # ArtifactKey[g]
    <2> SUFFICES ASSUME NEW j \in Unindexed, NEW k \in Unindexed, jobFile[first[j]] # jobFile[first[k]]
                 PROVE  ArtifactKey[jobFile[first[j]]] # ArtifactKey[jobFile[first[k]]]
      OBVIOUS
    <2>1. j # k
      OBVIOUS
    <2> QED
      BY <1>3, <2>1
  <1>7. OwnLinks(first) \subseteq Requests \X Projects /\ \A l \in OwnLinks(first) : l[1] \in new
    <2> SUFFICES ASSUME NEW k \in Unindexed
                 PROVE  <<jobFile[first[k]], ProjectOf[first[k]]>> \in Requests \X Projects
      BY DEF OwnLinks
    <2>1. jobFile[first[k]] \in Requests /\ first[k] \in Requests
      BY <1>1, <1>3
    <2> QED
      BY <2>1, RequestTypes
  <1>8. owed \subseteq Requests \X Projects /\ \A l \in owed : l[1] \in known
    <2> SUFFICES ASSUME NEW f \in known \cap files, NEW r \in Requests
                 PROVE  <<f, ProjectOf[r]>> \in Requests \X Projects
      OBVIOUS
    <2> QED
      BY <1>1, RequestTypes
  <1>9. y = [in |-> known, pinned |-> rows.pinned, links |-> rows.links \cup OwnLinks(first) \cup owed]
    BY DEF Registered
  <1>10. known \subseteq files /\ known \subseteq Requests /\ new \subseteq known
    BY <1>1, <1>2, <1>4
  <1>11. \A f, g \in known : f # g => ArtifactKey[f] # ArtifactKey[g]
    BY <1>5, <1>6 DEF LibraryIInv, OneArtifactPerKey
  <1>12. rows.in \subseteq known
    OBVIOUS
  <1>13. /\ rows.pinned \subseteq rows.in /\ rows.links \subseteq Requests \X Projects
         /\ \A l \in rows.links : l[1] \in rows.in
    BY <1>1 DEF GoodIndex, Index, WellFormed
  <1> HIDE DEF new, known, owed, y
  <1>14. y.in = known /\ y.pinned = rows.pinned /\ y.links = rows.links \cup OwnLinks(first) \cup owed
    BY <1>9
  <1>15. y \in Index
    BY <1>1, <1>7, <1>8, <1>9, <1>10, <1>13 DEF Index
  <1>16. WellFormed(y)
    BY <1>7, <1>8, <1>10, <1>12, <1>13, <1>14 DEF WellFormed
  <1> QED
    BY <1>10, <1>11, <1>12, <1>14, <1>15, <1>16 DEF GoodIndex, y
(* What a start keeps of an index whose records have files: the pinned,    *)
(* and as much of the rest as fits.                                        *)
LEMMA ReconciledIndex ==
  ASSUME NEW y, GoodIndex(y), y.in \subseteq files, y.in \subseteq Requests, Fits(y.pinned, 0),
         NEW x \in Reconciled(y)
  PROVE  GoodIndex(x) /\ x.in \subseteq y.in /\ x.pinned = y.pinned /\ Fits(x.in, 0)
  <1> DEFINE present == Without(y, y.in \ files)
             enough == {E \in EvictionPlans(present, 0, NoArtifact) : Fits(present.in \ E, 0)}
             plans == IF enough = {} THEN {present.in \ present.pinned} ELSE enough
  <1>1. GoodIndex(present) /\ present.in = y.in \ (y.in \ files) /\ present.pinned = y.pinned \ (y.in \ files)
    BY WithoutIndex
  <1>2. y.pinned \subseteq y.in
    BY DEF GoodIndex, WellFormed
  <1>3. present.in = y.in /\ present.pinned = y.pinned
    BY <1>1, <1>2
  <1>4. PICK E \in plans : x = Without(present, E)
    BY DEF Reconciled
  <1>5. E \subseteq y.in \ y.pinned /\ Fits(y.in \ E, 0)
    <2>1. CASE enough = {}
      <3>1. E = y.in \ y.pinned
        BY <1>3, <1>4, <2>1
      <3>2. y.in \ E = y.pinned
        BY <1>2, <3>1
      <3> QED
        BY <3>1, <3>2
    <2>2. CASE enough # {}
      <3>1. E \in EvictionPlans(present, 0, NoArtifact) /\ Fits(present.in \ E, 0)
        BY <1>4, <2>2
      <3>2. E \subseteq present.in \ present.pinned
        BY <3>1 DEF EvictionPlans
      <3> QED
        BY <1>3, <3>1, <3>2
    <2> QED
      BY <2>1, <2>2
  <1> HIDE DEF present, plans
  <1>6. GoodIndex(x) /\ x.in = present.in \ E /\ x.pinned = present.pinned \ E
    BY <1>1, <1>4, WithoutIndex
  <1> QED
    BY <1>2, <1>3, <1>5, <1>6

LEMMA StartKeepsLibrary ==
  ASSUME LibraryIInv, Start
  PROVE  LibraryIInv' /\ rows.pinned \subseteq rows'.in
  <1>1. /\ ~up /\ up' = TRUE
        /\ UNCHANGED <<promotion, evicting, result, aborted, jobFile, writeFailures, libraryCrashes>>
    BY DEF Start
  <1>2. PICK first \in [Unindexed -> Requests] :
          /\ \A k \in Unindexed : first[k] \in Holders(k)
          /\ \E x \in Reconciled(Registered(first)) :
               index' = x /\ rows' = x /\ files' = x.in /\ staging' = {}
    BY DEF Start
  <1>3. PICK x \in Reconciled(Registered(first)) :
          index' = x /\ rows' = x /\ files' = x.in /\ staging' = {}
    BY <1>2
  <1> DEFINE y == Registered(first)
  <1>4. FirstHolders(first)
    BY <1>2 DEF FirstHolders
  <1>5. /\ GoodIndex(y) /\ rows.in \subseteq y.in /\ y.in \subseteq files /\ y.pinned = rows.pinned
        /\ \A f, g \in y.in : f # g => ArtifactKey[f] # ArtifactKey[g]
    BY <1>4, RegisteredIndex
  <1>6. x \in Reconciled(y)
    BY <1>3
  <1> HIDE DEF y
  <1>7. Fits(y.pinned, 0) /\ y.in \subseteq Requests
    BY <1>5, LibraryTypes DEF LibraryIInv, QuotaHolds
  <1>8. GoodIndex(x) /\ x.in \subseteq y.in /\ x.pinned = y.pinned /\ Fits(x.in, 0)
    BY <1>5, <1>6, <1>7, ReconciledIndex
  <1>9. x.pinned \subseteq x.in
    BY <1>8 DEF GoodIndex, WellFormed
  <1>10. \A q \in Requests : promotion[q] \in {"idle", "done", "failed"} /\ evicting[q] = {}
    BY <1>1 DEF LibraryIInv, FilesAreKnown, PlansStayValid
  <1>11. LibraryTypeOK'
    BY <1>1, <1>3, <1>5, <1>8, LibraryTypes DEF LibraryTypeOK, GoodIndex, WellFormed
  <1>12. ChainIsHeldOnce' /\ RowsAreLoaded'
    BY <1>1, <1>3, <1>10 DEF ChainIsHeldOnce, RowsAreLoaded, Holding
  <1>13. FilesArePromoted'
    <2>1. \A q \in files : promotion[q] \in Ended
      BY <1>10, LibraryTypes DEF LibraryIInv, FilesArePromoted, Ended
    <2> QED
      BY <1>1, <1>3, <1>5, <1>8, <1>10, <2>1 DEF LibraryIInv, FilesArePromoted
  <1>14. FilesAreKnown'
    BY <1>1, <1>3, <1>10 DEF FilesAreKnown
  <1>15. PlansStayValid'
    BY <1>1, <1>10 DEF PlansStayValid
  <1>16. QuotaHolds' /\ OneArtifactPerKey'
    BY <1>3, <1>5, <1>7, <1>8 DEF QuotaHolds, OneArtifactPerKey, Fits, Bytes
  <1> QED
    BY <1>3, <1>5, <1>8, <1>9, <1>11, <1>12, <1>13, <1>14, <1>15, <1>16 DEF LibraryIInv

LEMMA CrashWhileStartingKeepsLibrary ==
  ASSUME LibraryIInv, CrashWhileStarting
  PROVE  LibraryIInv' /\ rows.pinned \subseteq rows'.in
  <1>1. /\ ~up /\ libraryCrashes < MaxLibraryCrashes /\ libraryCrashes' = libraryCrashes + 1
        /\ UNCHANGED <<up, index, files, staging, promotion, evicting, result, aborted, jobFile, writeFailures>>
    BY DEF CrashWhileStarting
  <1>2. PICK first \in [Unindexed -> Requests] :
          (\A k \in Unindexed : first[k] \in Holders(k)) /\ rows' = Registered(first)
    BY DEF CrashWhileStarting
  <1>3. FirstHolders(first)
    BY <1>2 DEF FirstHolders
  <1>4. /\ GoodIndex(rows') /\ rows.in \subseteq rows'.in /\ rows'.in \subseteq files
        /\ rows'.pinned = rows.pinned
        /\ \A f, g \in rows'.in : f # g => ArtifactKey[f] # ArtifactKey[g]
    <2>1. /\ GoodIndex(Registered(first))
          /\ rows.in \subseteq Registered(first).in /\ Registered(first).in \subseteq files
          /\ Registered(first).pinned = rows.pinned
          /\ \A f, g \in Registered(first).in : f # g => ArtifactKey[f] # ArtifactKey[g]
      BY <1>3, RegisteredIndex
    <2> QED
      BY <1>2, <2>1 DEF GoodIndex, WellFormed
  <1>5. libraryCrashes' \in 0..MaxLibraryCrashes
    BY <1>1, LibraryTypes, LibraryAssumption
  <1>6. rows.pinned \subseteq rows.in
    BY LibraryTypes
  <1>7. LibraryTypeOK'
    BY <1>1, <1>4, <1>5 DEF LibraryIInv, LibraryTypeOK, GoodIndex, WellFormed
  <1>8. ChainIsHeldOnce' /\ RowsAreLoaded' /\ FilesAreKnown' /\ OneArtifactPerKey'
    BY <1>1, <1>4 DEF LibraryIInv, ChainIsHeldOnce, RowsAreLoaded, FilesAreKnown, OneArtifactPerKey
  <1>9. FilesArePromoted'
    <2>1. \A q \in files : promotion[q] \in Ended
      BY <1>1, LibraryTypes DEF LibraryIInv, FilesArePromoted, FilesAreKnown, Ended
    <2> QED
      BY <1>1, <1>4, <2>1 DEF LibraryIInv, FilesArePromoted
  <1>10. PlansStayValid' /\ QuotaHolds'
    BY <1>1, <1>4 DEF LibraryIInv, PlansStayValid, QuotaHolds, Fits, Bytes
  <1> QED
    BY <1>4, <1>6, <1>7, <1>8, <1>9, <1>10 DEF LibraryIInv

(* A step of the library keeps the invariant.                              *)
LEMMA LibraryKeepsIInv ==
  ASSUME LibraryIInv, LibraryNext
  PROVE  LibraryIInv'
  <1>1. ASSUME NEW r \in Requests,
               Request(r) \/ Abort(r) \/ PromotionStep(r) \/ Finish(r) \/ EnqueueCached(r) \/ CrashWhileEvicting(r)
        PROVE  LibraryIInv'
    BY <1>1, RequestKeepsLibrary, AbortKeepsLibrary, OpenKeepsLibrary, LookUpKeepsLibrary, ReuseKeepsLibrary,
       CheckQuotaKeepsLibrary, PlanAndRenameKeepsLibrary, CommitKeepsLibrary, FinishKeepsLibrary,
       EnqueueCachedKeepsLibrary, CrashWhileEvictingKeepsLibrary DEF PromotionStep
  <1>2. ASSUME NEW X \in SUBSET index.in, NEW value \in BOOLEAN, SetPinned(X, value)
        PROVE  LibraryIInv'
    BY <1>2, SetPinnedKeepsLibrary
  <1>3. CASE LibraryCrash \/ Start \/ CrashWhileStarting
    BY <1>3, LibraryCrashKeepsLibrary, StartKeepsLibrary, CrashWhileStartingKeepsLibrary
  <1> QED
    BY <1>1, <1>2, <1>3 DEF LibraryNext

(* ... and the pinned records.                                             *)
LEMMA LibraryKeepsPinned ==
  ASSUME LibraryIInv, LibraryNext
  PROVE  rows.pinned \subseteq rows'.in
  <1>1. rows.pinned \subseteq rows.in /\ GoodIndex(rows)
    BY LibraryTypes
  <1>2. CASE rows' = rows
    BY <1>1, <1>2
  <1>3. ASSUME NEW r \in Requests, CrashWhileEvicting(r) \/ (Commit(r) /\ rows' # rows)
        PROVE  rows.pinned \subseteq rows'.in
    <2>1. up /\ promotion[r] = "renamed" /\ rows' = Replaced(r)
      BY <1>3 DEF CrashWhileEvicting, Commit, Promoting, Persisted, PersistFails
    <2>2. Replaced(r).in = (index.in \ evicting[r]) \cup {r}
      BY <2>1, ReplacedIndex
    <2>3. evicting[r] \subseteq index.in \ index.pinned /\ index.in = rows.in /\ index.pinned = rows.pinned
      BY <2>1, HolderIsAlone DEF Holding
    <2> QED
      BY <1>1, <2>1, <2>2, <2>3
  <1>4. ASSUME NEW r \in Requests, Reuse(r) \/ EnqueueCached(r)
        PROVE  rows.pinned \subseteq rows'.in
    <2>1. up /\ ProjectOf[r] \in Projects
      BY <1>4, RequestTypes DEF Reuse, EnqueueCached, Promoting
    <2>2. rows' = rows \/ \E f \in index.in : rows' = Linked(index, f, ProjectOf[r])
      <3>1. CASE Reuse(r)
        <4>1. result[r] \in index.in
          BY <3>1 DEF Reuse, Promoting, LibraryIInv, PlansStayValid
        <4> QED
          BY <3>1, <4>1 DEF Reuse, Persisted, PersistFails
      <3>2. CASE EnqueueCached(r)
        <4>1. PICK f \in ByKey(r) :
                /\ index' = Linked(index, f, ProjectOf[r])
                /\ (IF index' = index THEN UNCHANGED <<rows, writeFailures>> ELSE Persisted(index')) \/ PersistFails
          BY <3>2 DEF EnqueueCached
        <4>2. f \in index.in
          BY <2>1, FoundIsIndexed
        <4> QED
          BY <4>1, <4>2 DEF Persisted, PersistFails
      <3> QED
        BY <1>4, <3>1, <3>2
    <2>3. GoodIndex(index) /\ index.in = rows.in
      BY <2>1, LibraryTypes DEF LibraryIInv, RowsAreLoaded
    <2> QED
      BY <1>1, <2>1, <2>2, <2>3, LinkedIndex
  <1>5. ASSUME NEW X, NEW value \in BOOLEAN, SetPinned(X, value)
        PROVE  rows.pinned \subseteq rows'.in
    <2>1. up /\ X \in SUBSET index.in /\ (rows' = Pinned(index, X, value) \/ rows' = rows)
      BY <1>5 DEF SetPinned, Persisted, PersistFails
    <2>2. GoodIndex(index) /\ index.in = rows.in
      BY <2>1, LibraryTypes DEF LibraryIInv, RowsAreLoaded
    <2>3. Pinned(index, X, value).in = index.in
      BY <2>1, <2>2, PinnedIndex
    <2> QED
      BY <1>1, <2>1, <2>2, <2>3
  <1>6. CASE Start \/ CrashWhileStarting
    BY <1>6, StartKeepsLibrary, CrashWhileStartingKeepsLibrary
  <1>7. ASSUME NEW r \in Requests,
               Request(r) \/ Abort(r) \/ Open(r) \/ LookUp(r) \/ CheckQuota(r) \/ PlanAndRename(r) \/ Finish(r)
        PROVE  rows' = rows
    BY <1>7 DEF Request, Abort, Open, LookUp, CheckQuota, PlanAndRename, Finish
  <1>8. LibraryCrash => rows' = rows
    BY DEF LibraryCrash
  <1> QED
    BY <1>2, <1>3, <1>4, <1>5, <1>6, <1>7, <1>8 DEF LibraryNext, PromotionStep

LEMMA LibraryUnchangedKeepsIInv == LibraryIInv /\ UNCHANGED libraryVars => LibraryIInv'
  <1> SUFFICES ASSUME LibraryIInv, UNCHANGED libraryVars PROVE LibraryIInv'
    OBVIOUS
  <1>1. LibraryTypeOK'
    BY DEF LibraryIInv, LibraryTypeOK, WellFormed, libraryVars
  <1>2. ChainIsHeldOnce' /\ FilesArePromoted' /\ RowsAreLoaded' /\ FilesAreKnown' /\ OneArtifactPerKey'
    BY DEF LibraryIInv, ChainIsHeldOnce, FilesArePromoted, RowsAreLoaded, FilesAreKnown, OneArtifactPerKey, libraryVars
  <1>3. PlansStayValid' /\ QuotaHolds'
    BY DEF LibraryIInv, PlansStayValid, QuotaHolds, Fits, Bytes, libraryVars
  <1> QED
    BY <1>1, <1>2, <1>3 DEF LibraryIInv

(* The invariant says that the library is sound.                           *)
LEMMA LibraryIInvImpliesSound == LibraryIInv => LibraryIsSound
  <1> SUFFICES ASSUME LibraryIInv PROVE LibraryIsSound
    OBVIOUS
  <1>1. RowsHaveFiles
    BY DEF LibraryIInv, FilesAreKnown, RowsHaveFiles
  <1>2. NothingIsOrphaned
    BY DEF LibraryIInv, FilesAreKnown, NothingIsOrphaned, ChainIsFree, Holding
  <1>3. MemoryMatchesRows /\ LibraryFits /\ OneArtifactPerKey
    BY DEF LibraryIInv, RowsAreLoaded, QuotaHolds, MemoryMatchesRows, LibraryFits
  <1> QED
    BY <1>1, <1>2, <1>3 DEF LibraryIsSound

(* Memory, rows and files tell the same story at every await, crash and    *)
(* failed write, within the quota and without duplicates, in every         *)
(* behaviour of the process (promoteArtifact, setArtifactsPinned,          *)
(* loadIndex).                                                             *)
THEOREM LibraryAlwaysSound == MCSpec => []LibraryIsSound
  <1>1. MCInit => LibraryIInv
    BY LibraryInitIInv DEF MCInit
  <1>2. ASSUME LibraryIInv, [MCNext]_<<part, libraryVars, shutdownVars, bridgeVars, eventsVars, poolVars>>
        PROVE  LibraryIInv'
    <2>1. LibraryNext \/ UNCHANGED libraryVars
      BY <1>2 DEF MCNext, LibraryMoves, ShutdownMoves, BridgeMoves, EventsMove, PoolMoves
    <2> QED
      BY <1>2, <2>1, LibraryKeepsIInv, LibraryUnchangedKeepsIInv
  <1> QED
    BY <1>1, <1>2, LibraryIInvImpliesSound, PTL DEF MCSpec

(* No promotion, restart or crash of the process evicts an artifact that   *)
(* is pinned (planArtifactEvictions, reconcileArtifactStore).              *)
THEOREM PinnedAlwaysSurvive == MCSpec => PinnedSurvive
  <1>1. MCInit => LibraryIInv
    BY LibraryInitIInv DEF MCInit
  <1>2. ASSUME LibraryIInv, [MCNext]_<<part, libraryVars, shutdownVars, bridgeVars, eventsVars, poolVars>>
        PROVE  LibraryIInv' /\ [rows.pinned \subseteq rows'.in]_libraryVars
    <2>1. LibraryNext \/ UNCHANGED libraryVars
      BY <1>2 DEF MCNext, LibraryMoves, ShutdownMoves, BridgeMoves, EventsMove, PoolMoves
    <2> QED
      BY <1>2, <2>1, LibraryKeepsIInv, LibraryUnchangedKeepsIInv, LibraryKeepsPinned
  <1> QED
    BY <1>1, <1>2, PTL DEF MCSpec, PinnedSurvive

----------------------------------------------------------------------------
(* The device events.  What is on the cable reaches the monitor in three   *)
(* parts: the listener's map follows the cable as far as the queue has not *)
(* been read, the monitor follows the map as far as the wire has not, and  *)
(* a device that is plugged in is refreshed when the event that brings it  *)
(* arrives.  An `end' in the queue cuts all of this off: what follows is   *)
(* thrown away and a new listing is made.                                  *)

Announcements == [type : {"in", "out"}, id : MuxIds]

EventTypes ==
  /\ plugged \in [Udids -> 0 .. MaxPlugs] /\ plugs \in [Udids -> 0 .. MaxPlugs]
  /\ \A u \in Udids : plugged[u] \in {0, plugs[u]}
  /\ muxState \in {"up", "down", "stalled"}
  /\ listener \in {"none", "connect", "list", "held", "follow", "retry"}
  /\ queue \in Seq(MuxEvents)
  /\ devices \subseteq MuxIds
  /\ wire \in Seq(StreamEvents) /\ Len(wire) <= MaxWire
  /\ client \in {"apart", "opening", "following", "over"}
  /\ attempt \in 0 .. 2 /\ snapshotSeen \in BOOLEAN
  /\ client \in {"opening", "following"} => attempt # 0
  /\ current \subseteq Udids /\ unseen \subseteq Udids
  /\ muxBreaks \in 0 .. MaxMuxBreaks /\ losses \in 0 .. MaxLosses

(* The mux has not broken off what it tells.                               *)
Unbroken == \A i \in DOMAIN queue : queue[i].type # "end"

BreaksAreTold == listener \in {"list", "follow"} /\ muxState = "down" => ~Unbroken

(* The last word of the queue on a mux id is what the cable is like; ids   *)
(* of a device are announced in the order of its plugs.                    *)
QueueIsTrue ==
  listener \in {"list", "follow"} /\ Unbroken =>
    /\ \A i \in DOMAIN queue :
         (\A j \in DOMAIN queue : j > i => queue[j].id # queue[i].id)
           => (queue[i].type = "in" <=> queue[i].id \in PluggedIds)
    /\ \A i, j \in DOMAIN queue :
         i < j /\ queue[i].id[1] = queue[j].id[1] => queue[i].id[2] <= queue[j].id[2]

(* Without a word on an id, the map has it if the cable has.               *)
MapFollows ==
  listener = "follow" /\ Unbroken =>
    \A id \in MuxIds : (\A i \in DOMAIN queue : queue[i].id # id) => (id \in devices <=> id \in PluggedIds)

(* No id is of a plug that is yet to come.                                 *)
IdsAreOld ==
  /\ \A i \in DOMAIN queue : queue[i].type # "end" => queue[i].id[2] <= plugs[queue[i].id[1]]
  /\ \A id \in devices : id[2] <= plugs[id[1]]

Silent(i, j) == \A k \in DOMAIN wire : i < k /\ k < j => wire[k].type = "reconnecting"

(* What the monitor knows before it receives the i-th event on the wire.   *)
KnownBefore(i, K) ==
  \/ Silent(0, i) /\ K = current
  \/ \E j \in DOMAIN wire :
       j < i /\ wire[j].type # "reconnecting" /\ wire[j].udids = K /\ Silent(j, i)

MonitorFollows == listener = "follow" => KnownBefore(Len(wire) + 1, UdidsOf(devices))

(* An event on the wire will have the device refreshed.                    *)
WillRefresh(u, i) ==
  /\ u \in wire[i].udids
  /\ \/ wire[i].type = "snapshot"
     \/ wire[i].type = "connected" /\ \E K \in SUBSET Udids : KnownBefore(i, K) /\ u \notin K

(* A device in the map that is plugged in has been refreshed, or will be.  *)
ArrivalsAreSeen ==
  listener = "follow" /\ Unbroken =>
    \A u \in Udids :
      plugged[u] # 0 /\ u \in unseen /\ <<u, plugged[u]>> \in devices => \E i \in DOMAIN wire : WillRefresh(u, i)

EventsIInv ==
  EventTypes /\ BreaksAreTold /\ QueueIsTrue /\ MapFollows /\ IdsAreOld /\ MonitorFollows /\ ArrivalsAreSeen
(* A sequence that grows at its end, and one that loses its head.          *)
LEMMA GrownSequence ==
  ASSUME NEW S, NEW s \in Seq(S), NEW e \in S
  PROVE  /\ Append(s, e) \in Seq(S) /\ Len(s) \in Nat /\ Len(Append(s, e)) = Len(s) + 1
         /\ DOMAIN s = 1 .. Len(s) /\ DOMAIN Append(s, e) = 1 .. (Len(s) + 1)
         /\ \A i \in 1 .. Len(s) : Append(s, e)[i] = s[i]
         /\ Append(s, e)[Len(s) + 1] = e
  OBVIOUS

LEMMA ReadSequence ==
  ASSUME NEW S, NEW s \in Seq(S), s # <<>>
  PROVE  /\ Tail(s) \in Seq(S) /\ Len(s) \in Nat \ {0} /\ Len(Tail(s)) = Len(s) - 1
         /\ DOMAIN s = 1 .. Len(s) /\ DOMAIN Tail(s) = 1 .. (Len(s) - 1)
         /\ \A i \in 1 .. (Len(s) - 1) : Tail(s)[i] = s[i + 1]
         /\ Head(s) = s[1] /\ s[1] \in S
  OBVIOUS

LEMMA IdsOfPlugs ==
  ASSUME NEW id \in MuxIds
  PROVE  id[1] \in Udids /\ id[2] \in 1 .. MaxPlugs /\ id[2] \in Nat /\ id = <<id[1], id[2]>>
  BY EventsAssumption DEF MuxIds

LEMMA UdidsOfIds ==
  ASSUME NEW ids \in SUBSET MuxIds
  PROVE  UdidsOf(ids) \subseteq Udids
  BY IdsOfPlugs DEF UdidsOf

(* An event that is not the end is about an id.                            *)
LEMMA AnnouncedIds ==
  ASSUME queue \in Seq(MuxEvents), NEW i \in DOMAIN queue
  PROVE  queue[i].type # "end" => queue[i].id \in MuxIds /\ queue[i].type \in {"in", "out"}
  BY DEF MuxEvents

LEMMA EventsInitIInv == EventsInit => EventsIInv
  <1> SUFFICES ASSUME EventsInit PROVE EventsIInv
    OBVIOUS
  <1>1. EventTypes
    <2>1. plugged \in [Udids -> 0 .. MaxPlugs] /\ plugs \in [Udids -> 0 .. MaxPlugs]
      BY EventsAssumption DEF EventsInit
    <2>2. \A u \in Udids : plugged[u] \in {0, plugs[u]}
      BY DEF EventsInit
    <2>3. queue \in Seq(MuxEvents) /\ wire \in Seq(StreamEvents) /\ Len(wire) <= MaxWire
      BY EventsAssumption DEF EventsInit
    <2>4. muxBreaks \in 0 .. MaxMuxBreaks /\ losses \in 0 .. MaxLosses
      BY EventsAssumption DEF EventsInit
    <2>5. /\ muxState = "up" /\ listener = "none" /\ client = "apart" /\ attempt \in 0 .. 2 /\ snapshotSeen = FALSE
          /\ devices = {} /\ current = {} /\ unseen = {}
      BY DEF EventsInit
    <2> QED
      BY <2>1, <2>2, <2>3, <2>4, <2>5 DEF EventTypes
  <1>2. BreaksAreTold /\ QueueIsTrue /\ MapFollows /\ IdsAreOld /\ MonitorFollows /\ ArrivalsAreSeen
    BY DEF EventsInit, BreaksAreTold, QueueIsTrue, MapFollows, IdsAreOld, MonitorFollows, ArrivalsAreSeen
  <1> QED
    BY <1>1, <1>2 DEF EventsIInv

(* Without a listener that follows there is little to be kept.             *)
LEMMA UnheardKeepsEvents ==
  ASSUME EventTypes', listener' \notin {"list", "follow"}, IdsAreOld'
  PROVE  EventsIInv'
  BY DEF EventsIInv, BreaksAreTold, QueueIsTrue, MapFollows, MonitorFollows, ArrivalsAreSeen

(* The mux tells the listener of a change on the cable.                    *)
LEMMA NotifyKeepsQueue ==
  ASSUME EventTypes, BreaksAreTold, QueueIsTrue, MapFollows, IdsAreOld,
         NEW type \in {"in", "out"}, NEW id \in MuxIds, Notify(type, id),
         PluggedIds' = IF type = "in" THEN PluggedIds \cup {id} ELSE PluggedIds \ {id},
         \A u \in Udids : plugs[u] \in Nat /\ plugs'[u] \in Nat /\ plugs[u] <= plugs'[u],
         plugs[id[1]] <= id[2], id[2] <= plugs'[id[1]],
         UNCHANGED <<listener, muxState, devices>>
  PROVE  queue' \in Seq(MuxEvents) /\ BreaksAreTold' /\ QueueIsTrue' /\ MapFollows' /\ IdsAreOld'
  <1> DEFINE e == [type |-> type, id |-> id]
             n == Len(queue) + 1
  <1>0. queue \in Seq(MuxEvents) /\ devices \subseteq MuxIds
    BY DEF EventTypes
  <1>1. e \in MuxEvents /\ e.type = type /\ e.id = id /\ e.type # "end"
    BY DEF MuxEvents
  <1>2. id[1] \in Udids /\ id[2] \in Nat
    BY IdsOfPlugs
  <1>3. \A d \in devices : d[2] <= plugs'[d[1]]
    BY <1>0, IdsOfPlugs DEF IdsAreOld
  <1>4. \A i \in DOMAIN queue : queue[i].type # "end" =>
          queue[i].id \in MuxIds /\ queue[i].id[1] \in Udids /\ queue[i].id[2] \in Nat
          /\ queue[i].id[2] <= plugs[queue[i].id[1]]
    BY <1>0, AnnouncedIds, IdsOfPlugs DEF IdsAreOld
  <1>5. CASE ~Listening
    <2>1. queue' = queue
      BY <1>5 DEF Notify
    <2>2. listener \in {"list", "follow"} => ~Unbroken
      BY <1>5 DEF Listening, BreaksAreTold
    <2>3. BreaksAreTold' /\ QueueIsTrue' /\ MapFollows'
      BY <2>1, <2>2 DEF BreaksAreTold, QueueIsTrue, MapFollows, Unbroken
    <2>4. IdsAreOld'
      BY <1>3, <1>4, <2>1 DEF IdsAreOld
    <2> QED
      BY <1>0, <2>1, <2>3, <2>4
  <1>6. CASE Listening
    <2> HIDE DEF e
    <2>1. queue' = Append(queue, e)
      BY <1>6 DEF Notify, e
    <2>2. /\ queue' \in Seq(MuxEvents) /\ Len(queue) \in Nat
          /\ DOMAIN queue = 1 .. Len(queue) /\ DOMAIN queue' = 1 .. n
          /\ \A i \in 1 .. Len(queue) : queue'[i] = queue[i]
          /\ queue'[n] = e
      BY <1>0, <1>1, <2>1, GrownSequence
    <2>3. muxState' # "down" /\ listener \in {"list", "follow"}
      BY <1>6 DEF Listening
    <2>4. BreaksAreTold'
      BY <2>3 DEF BreaksAreTold
    <2>5. IdsAreOld'
      <3>1. ASSUME NEW i \in 1 .. n, queue'[i].type # "end"
            PROVE  queue'[i].id[2] <= plugs'[queue'[i].id[1]]
        <4>1. CASE i = n
          BY <1>1, <2>2, <4>1
        <4>2. CASE i # n
          <5>1. i \in 1 .. Len(queue) /\ queue'[i] = queue[i]
            BY <2>2, <4>2
          <5> QED
            BY <1>4, <2>2, <3>1, <5>1
        <4> QED
          BY <4>1, <4>2
      <3> QED
        BY <1>3, <2>2, <3>1 DEF IdsAreOld
    <2>6. ASSUME Unbroken'
          PROVE  Unbroken
      BY <2>2, <2>6 DEF Unbroken
    <2>7. QueueIsTrue'
      <3> SUFFICES ASSUME Unbroken'
                   PROVE  /\ \A i \in 1 .. n :
                               (\A j \in 1 .. n : j > i => queue'[j].id # queue'[i].id)
                                 => (queue'[i].type = "in" <=> queue'[i].id \in PluggedIds')
                          /\ \A i, j \in 1 .. n :
                               i < j /\ queue'[i].id[1] = queue'[j].id[1] => queue'[i].id[2] <= queue'[j].id[2]
        BY <2>2 DEF QueueIsTrue
      <3>1. Unbroken
        BY <2>6
      <3>2. ASSUME NEW i \in 1 .. n, \A j \in 1 .. n : j > i => queue'[j].id # queue'[i].id
            PROVE  queue'[i].type = "in" <=> queue'[i].id \in PluggedIds'
        <4>1. CASE i = n
          BY <1>1, <2>2, <4>1
        <4>2. CASE i # n
          <5>1. i \in 1 .. Len(queue) /\ queue'[i] = queue[i] /\ n > i /\ n \in 1 .. n
            BY <2>2, <4>2
          <5>2. queue[i].id # id
            BY <1>1, <2>2, <3>2, <5>1
          <5>3. \A j \in 1 .. Len(queue) : j > i => queue[j].id # queue[i].id
            BY <2>2, <3>2, <5>1
          <5>4. queue[i].type = "in" <=> queue[i].id \in PluggedIds
            BY <2>2, <2>3, <3>1, <5>1, <5>3 DEF QueueIsTrue
          <5> QED
            BY <5>1, <5>2, <5>4
        <4> QED
          BY <4>1, <4>2
      <3>3. ASSUME NEW i \in 1 .. n, NEW j \in 1 .. n, i < j, queue'[i].id[1] = queue'[j].id[1]
            PROVE  queue'[i].id[2] <= queue'[j].id[2]
        <4>1. i \in 1 .. Len(queue) /\ queue'[i] = queue[i] /\ queue[i].type # "end"
          BY <2>2, <3>1, <3>3 DEF Unbroken
        <4>2. CASE j = n
          <5>1. queue[i].id[1] = id[1] /\ queue'[j].id = id
            BY <1>1, <2>2, <3>3, <4>1, <4>2
          <5>2. queue[i].id[2] <= plugs[id[1]] /\ queue[i].id[2] \in Nat
            BY <1>4, <2>2, <4>1, <5>1
          <5> QED
            BY <1>2, <4>1, <5>1, <5>2
        <4>3. CASE j # n
          <5>1. j \in 1 .. Len(queue) /\ queue'[j] = queue[j]
            BY <2>2, <4>3
          <5> QED
            BY <2>2, <2>3, <3>1, <3>3, <4>1, <5>1 DEF QueueIsTrue
        <4> QED
          BY <4>2, <4>3
      <3> QED
        BY <3>2, <3>3
    <2>8. MapFollows'
      <3> SUFFICES ASSUME listener = "follow", Unbroken', NEW d \in MuxIds, \A i \in 1 .. n : queue'[i].id # d
                   PROVE  d \in devices <=> d \in PluggedIds'
        BY <2>2 DEF MapFollows
      <3>1. d # id
        BY <1>1, <2>2
      <3>2. \A i \in 1 .. Len(queue) : queue[i].id # d
        BY <2>2
      <3>3. d \in devices <=> d \in PluggedIds
        BY <2>2, <2>6, <3>2 DEF MapFollows
      <3> QED
        BY <3>1, <3>3
    <2> QED
      BY <2>2, <2>4, <2>5, <2>7, <2>8
  <1> QED
    BY <1>5, <1>6
(* What stays on the wire stays what it was.                               *)
LEMMA WireIsKept ==
  ASSUME UNCHANGED <<wire, current>>
  PROVE  /\ \A i, K : KnownBefore(i, K) => KnownBefore(i, K)'
         /\ \A u, i : WillRefresh(u, i) => WillRefresh(u, i)'
  <1>1. \A i, j : Silent(i, j) => Silent(i, j)'
    BY DEF Silent
  <1>2. \A i, K : KnownBefore(i, K) => KnownBefore(i, K)'
    BY <1>1 DEF KnownBefore
  <1>3. ASSUME NEW u, NEW i, WillRefresh(u, i)
        PROVE  WillRefresh(u, i)'
    BY <1>2, <1>3 DEF WillRefresh
  <1> QED
    BY <1>2, <1>3

LEMMA KeptPromises ==
  ASSUME MonitorFollows, ArrivalsAreSeen, UNCHANGED <<wire, current, devices, listener>>,
         Unbroken' => Unbroken,
         \A u \in Udids : plugged'[u] # 0 /\ u \in unseen' /\ <<u, plugged'[u]>> \in devices
                            => plugged'[u] = plugged[u] /\ u \in unseen
  PROVE  MonitorFollows' /\ ArrivalsAreSeen'
  <1>1. /\ \A i, K : KnownBefore(i, K) => KnownBefore(i, K)'
        /\ \A u, i : WillRefresh(u, i) => WillRefresh(u, i)'
    BY WireIsKept
  <1>2. MonitorFollows'
    BY <1>1 DEF MonitorFollows
  <1>3. ArrivalsAreSeen'
    <2> SUFFICES ASSUME listener = "follow", Unbroken', NEW u \in Udids, plugged'[u] # 0, u \in unseen',
                        <<u, plugged'[u]>> \in devices
                 PROVE  \E i \in DOMAIN wire : WillRefresh(u, i)'
      BY DEF ArrivalsAreSeen
    <2>1. plugged'[u] = plugged[u] /\ u \in unseen
      OBVIOUS
    <2>2. PICK i \in DOMAIN wire : WillRefresh(u, i)
      BY <2>1 DEF ArrivalsAreSeen
    <2> QED
      BY <1>1, <2>2
  <1> QED
    BY <1>2, <1>3

LEMMA PlugKeepsEvents ==
  ASSUME EventsIInv, NEW u \in Udids, Plug(u)
  PROVE  EventsIInv'
  <1> DEFINE n == plugs[u] + 1
  <1>0. EventTypes /\ BreaksAreTold /\ QueueIsTrue /\ MapFollows /\ IdsAreOld /\ MonitorFollows /\ ArrivalsAreSeen
    BY DEF EventsIInv
  <1>1. /\ plugged[u] = 0 /\ plugs[u] < MaxPlugs
        /\ plugs' = [plugs EXCEPT ![u] = @ + 1] /\ plugged' = [plugged EXCEPT ![u] = n]
        /\ Notify("in", <<u, n>>) /\ unseen' = unseen \cup {u}
        /\ UNCHANGED <<muxState, listener, devices, wire, client, attempt, snapshotSeen, current, muxBreaks, losses>>
    BY DEF Plug, monitor
  <1>2. plugged \in [Udids -> 0 .. MaxPlugs] /\ plugs \in [Udids -> 0 .. MaxPlugs]
    BY <1>0 DEF EventTypes
  <1>3. plugs[u] \in Nat /\ n \in 1 .. MaxPlugs /\ \A v \in Udids : plugs[v] \in Nat
    BY <1>1, <1>2, EventsAssumption
  <1>4. /\ plugs'[u] = n /\ plugged'[u] = n
        /\ \A v \in Udids \ {u} : plugs'[v] = plugs[v] /\ plugged'[v] = plugged[v]
    BY <1>1, <1>2
  <1>5. plugged' \in [Udids -> 0 .. MaxPlugs] /\ plugs' \in [Udids -> 0 .. MaxPlugs]
    <2>1. n \in 0 .. MaxPlugs
      BY <1>3, EventsAssumption
    <2> HIDE DEF n
    <2>2. plugged' \in [Udids -> 0 .. MaxPlugs]
      BY <1>1, <1>2, <2>1
    <2>3. plugs' = [plugs EXCEPT ![u] = n]
      BY <1>1, <1>2 DEF n
    <2> QED
      BY <1>2, <2>1, <2>2, <2>3
  <1>6. <<u, n>> \in MuxIds /\ <<u, n>>[1] = u /\ <<u, n>>[2] = n
    BY <1>3 DEF MuxIds
  <1>7. PluggedIds' = PluggedIds \cup {<<u, n>>}
    <2> SUFFICES ASSUME NEW id \in MuxIds
                 PROVE  plugged'[id[1]] = id[2] <=> plugged[id[1]] = id[2] \/ id = <<u, n>>
      BY <1>6 DEF PluggedIds
    <2>1. id[1] \in Udids /\ id[2] \in 1 .. MaxPlugs /\ id = <<id[1], id[2]>>
      BY IdsOfPlugs
    <2>2. CASE id[1] = u
      <3>1. plugged[id[1]] # id[2]
        BY <1>1, <2>1, <2>2, EventsAssumption
      <3>2. plugged'[id[1]] = n
        BY <1>4, <2>2
      <3> HIDE DEF n
      <3> QED
        BY <2>1, <2>2, <3>1, <3>2
    <2>3. CASE id[1] # u
      <3>1. plugged'[id[1]] = plugged[id[1]] /\ id # <<u, n>>
        BY <1>4, <2>1, <2>3
      <3> QED
        BY <3>1
    <2> QED
      BY <2>2, <2>3
  <1>8. \A v \in Udids : plugs[v] \in Nat /\ plugs'[v] \in Nat /\ plugs[v] <= plugs'[v]
    BY <1>3, <1>4
  <1>9. plugs[<<u, n>>[1]] <= <<u, n>>[2] /\ <<u, n>>[2] <= plugs'[<<u, n>>[1]]
    BY <1>3, <1>4, <1>6
  <1>a. "in" \in {"in", "out"}
    OBVIOUS
  <1>10. queue' \in Seq(MuxEvents) /\ BreaksAreTold' /\ QueueIsTrue' /\ MapFollows' /\ IdsAreOld'
    <2> HIDE DEF n
    <2>1. PluggedIds' = IF "in" = "in" THEN PluggedIds \cup {<<u, n>>} ELSE PluggedIds \ {<<u, n>>}
      BY <1>7
    <2>2. UNCHANGED <<listener, muxState, devices>>
      BY <1>1
    <2> QED
      BY <1>0, <1>1, <1>6, <1>8, <1>9, <1>a, <2>1, <2>2, NotifyKeepsQueue
  <1>11. EventTypes'
    <2>1. \A v \in Udids : plugged'[v] \in {0, plugs'[v]}
      BY <1>0, <1>4 DEF EventTypes
    <2> QED
      BY <1>0, <1>1, <1>5, <1>10, <2>1 DEF EventTypes
  <1>12. Unbroken' => Unbroken
    <2>1. queue \in Seq(MuxEvents)
      BY <1>0 DEF EventTypes
    <2>2. [type |-> "in", id |-> <<u, n>>] \in MuxEvents
      BY <1>6 DEF MuxEvents
    <2>3. queue' = queue \/ queue' = Append(queue, [type |-> "in", id |-> <<u, n>>])
      BY <1>1 DEF Notify
    <2> QED
      BY <2>1, <2>2, <2>3, GrownSequence DEF Unbroken
  <1>13. <<u, n>> \notin devices
    BY <1>0, <1>3, <1>6 DEF IdsAreOld
  <1>14. \A v \in Udids : plugged'[v] # 0 /\ v \in unseen' /\ <<v, plugged'[v]>> \in devices
                            => plugged'[v] = plugged[v] /\ v \in unseen
    BY <1>1, <1>4, <1>13
  <1>15. MonitorFollows' /\ ArrivalsAreSeen'
    BY <1>0, <1>1, <1>12, <1>14, KeptPromises
  <1> QED
    BY <1>10, <1>11, <1>15 DEF EventsIInv

LEMMA UnplugKeepsEvents ==
  ASSUME EventsIInv, NEW u \in Udids, Unplug(u)
  PROVE  EventsIInv'
  <1> DEFINE n == plugged[u]
  <1>0. EventTypes /\ BreaksAreTold /\ QueueIsTrue /\ MapFollows /\ IdsAreOld /\ MonitorFollows /\ ArrivalsAreSeen
    BY DEF EventsIInv
  <1>1. /\ n # 0 /\ plugs' = plugs /\ plugged' = [plugged EXCEPT ![u] = 0]
        /\ Notify("out", <<u, n>>) /\ unseen' = unseen \cup {u}
        /\ UNCHANGED <<muxState, listener, devices, wire, client, attempt, snapshotSeen, current, muxBreaks, losses>>
    BY DEF Unplug, monitor
  <1>2. plugged \in [Udids -> 0 .. MaxPlugs] /\ plugs \in [Udids -> 0 .. MaxPlugs]
    BY <1>0 DEF EventTypes
  <1>3. n \in 1 .. MaxPlugs /\ n \in Nat /\ n = plugs[u] /\ \A v \in Udids : plugs[v] \in Nat
    BY <1>0, <1>1, <1>2, EventsAssumption DEF EventTypes
  <1>4. plugged'[u] = 0 /\ \A v \in Udids \ {u} : plugged'[v] = plugged[v]
    BY <1>1, <1>2
  <1>5. plugged' \in [Udids -> 0 .. MaxPlugs]
    BY <1>1, <1>2, EventsAssumption
  <1>6. <<u, n>> \in MuxIds /\ <<u, n>>[1] = u /\ <<u, n>>[2] = n
    BY <1>3 DEF MuxIds
  <1>7. PluggedIds' = PluggedIds \ {<<u, n>>}
    <2> SUFFICES ASSUME NEW id \in MuxIds
                 PROVE  plugged'[id[1]] = id[2] <=> plugged[id[1]] = id[2] /\ id # <<u, n>>
      BY DEF PluggedIds
    <2>1. id[1] \in Udids /\ id[2] \in 1 .. MaxPlugs /\ id = <<id[1], id[2]>>
      BY IdsOfPlugs
    <2>2. CASE id[1] = u
      <3>1. plugged'[id[1]] # id[2]
        BY <1>4, <2>1, <2>2, EventsAssumption
      <3>2. plugged[id[1]] = id[2] => id = <<u, n>>
        BY <2>1, <2>2
      <3> QED
        BY <3>1, <3>2
    <2>3. CASE id[1] # u
      <3>1. plugged'[id[1]] = plugged[id[1]] /\ id # <<u, n>>
        BY <1>4, <2>1, <2>3
      <3> QED
        BY <3>1
    <2> QED
      BY <2>2, <2>3
  <1>8. \A v \in Udids : plugs[v] \in Nat /\ plugs'[v] \in Nat /\ plugs[v] <= plugs'[v]
    BY <1>1, <1>3
  <1>9. plugs[<<u, n>>[1]] <= <<u, n>>[2] /\ <<u, n>>[2] <= plugs'[<<u, n>>[1]]
    BY <1>1, <1>3, <1>6
  <1>a. "out" \in {"in", "out"}
    OBVIOUS
  <1>10. queue' \in Seq(MuxEvents) /\ BreaksAreTold' /\ QueueIsTrue' /\ MapFollows' /\ IdsAreOld'
    <2> HIDE DEF n
    <2>1. PluggedIds' = IF "out" = "in" THEN PluggedIds \cup {<<u, n>>} ELSE PluggedIds \ {<<u, n>>}
      BY <1>7
    <2>2. UNCHANGED <<listener, muxState, devices>>
      BY <1>1
    <2> QED
      BY <1>0, <1>1, <1>6, <1>8, <1>9, <1>a, <2>1, <2>2, NotifyKeepsQueue
  <1>11. EventTypes'
    <2>1. \A v \in Udids : plugged'[v] \in {0, plugs'[v]}
      BY <1>0, <1>1, <1>4 DEF EventTypes
    <2> QED
      BY <1>0, <1>1, <1>5, <1>10, <2>1 DEF EventTypes
  <1>12. Unbroken' => Unbroken
    <2>1. queue \in Seq(MuxEvents)
      BY <1>0 DEF EventTypes
    <2>2. [type |-> "out", id |-> <<u, n>>] \in MuxEvents
      BY <1>6 DEF MuxEvents
    <2>3. queue' = queue \/ queue' = Append(queue, [type |-> "out", id |-> <<u, n>>])
      BY <1>1 DEF Notify
    <2> QED
      BY <2>1, <2>2, <2>3, GrownSequence DEF Unbroken
  <1>13. \A v \in Udids : plugged'[v] # 0 /\ v \in unseen' /\ <<v, plugged'[v]>> \in devices
                            => plugged'[v] = plugged[v] /\ v \in unseen
    BY <1>1, <1>4
  <1>14. MonitorFollows' /\ ArrivalsAreSeen'
    BY <1>0, <1>1, <1>12, <1>13, KeptPromises
  <1> QED
    BY <1>10, <1>11, <1>14 DEF EventsIInv

(* The mux process ends, hangs and is there again.                         *)
LEMMA MuxKeepsEvents ==
  ASSUME EventsIInv, MuxExits \/ MuxHangs \/ MuxAnswers \/ MuxIsKilled \/ MuxReturns
  PROVE  EventsIInv'
  <1>0. EventTypes /\ BreaksAreTold /\ QueueIsTrue /\ MapFollows /\ IdsAreOld /\ MonitorFollows /\ ArrivalsAreSeen
    BY DEF EventsIInv
  <1>1. UNCHANGED <<plugged, plugs, listener, devices, wire, client, attempt, snapshotSeen, current, unseen, losses>>
    BY DEF MuxExits, MuxHangs, MuxAnswers, MuxIsKilled, MuxEnds, MuxReturns, cables, monitor
  <1>2. muxState' \in {"up", "down", "stalled"} /\ muxBreaks' \in 0 .. MaxMuxBreaks
    BY <1>0, EventsAssumption DEF MuxExits, MuxHangs, MuxAnswers, MuxIsKilled, MuxEnds, MuxReturns, EventTypes
  <1>3. queue \in Seq(MuxEvents)
    BY <1>0 DEF EventTypes
  <1>4. CASE queue' = queue /\ ~(MuxEnds /\ listener \in {"list", "follow"})
    <2>1. EventTypes'
      BY <1>0, <1>1, <1>2, <1>4 DEF EventTypes
    <2>2. BreaksAreTold'
      BY <1>0, <1>1, <1>4 DEF BreaksAreTold, Unbroken, MuxExits, MuxHangs, MuxAnswers, MuxIsKilled, MuxReturns
    <2>3. QueueIsTrue' /\ MapFollows' /\ IdsAreOld'
      BY <1>0, <1>1, <1>4 DEF QueueIsTrue, MapFollows, IdsAreOld, Unbroken, PluggedIds
    <2>4. Unbroken' => Unbroken
      BY <1>4 DEF Unbroken
    <2>5. MonitorFollows' /\ ArrivalsAreSeen'
      BY <1>0, <1>1, <2>4, KeptPromises
    <2> QED
      BY <2>1, <2>2, <2>3, <2>5 DEF EventsIInv
  <1>5. ASSUME NEW n \in 0 .. Len(queue), queue' = Append(SubSeq(queue, 1, n), [type |-> "end"])
        PROVE  EventsIInv'
    <2> DEFINE s == SubSeq(queue, 1, n)
               e == [type |-> "end"]
    <2>1. s \in Seq(MuxEvents) /\ Len(s) = n /\ \A i \in 1 .. n : s[i] = queue[i] /\ i \in DOMAIN queue
      BY <1>3
    <2>2. e \in MuxEvents
      BY DEF MuxEvents
    <2>3. e.type = "end"
      OBVIOUS
    <2> HIDE DEF s, e
    <2>4. queue' = Append(s, e)
      BY <1>5 DEF s, e
    <2>5. /\ queue' \in Seq(MuxEvents) /\ DOMAIN queue' = 1 .. (n + 1) /\ n \in Nat
          /\ \A i \in 1 .. n : queue'[i] = queue[i] /\ i \in DOMAIN queue
          /\ queue'[n + 1] = e
      BY <2>1, <2>2, <2>4, GrownSequence
    <2>6. ~Unbroken'
      BY <2>3, <2>5 DEF Unbroken
    <2>7. EventTypes'
      BY <1>0, <1>1, <1>2, <2>5 DEF EventTypes
    <2>8. IdsAreOld'
      <3>1. ASSUME NEW i \in 1 .. (n + 1), queue'[i].type # "end"
            PROVE  queue'[i].id[2] <= plugs[queue'[i].id[1]]
        <4>1. i # n + 1
          BY <2>3, <2>5, <3>1
        <4>2. i \in 1 .. n
          BY <2>5, <4>1
        <4> QED
          BY <1>0, <2>5, <3>1, <4>2 DEF IdsAreOld
      <3>2. \A id \in devices : id[2] <= plugs[id[1]]
        BY <1>0 DEF IdsAreOld
      <3> QED
        BY <1>1, <2>5, <3>1, <3>2 DEF IdsAreOld
    <2>9. BreaksAreTold' /\ QueueIsTrue' /\ MapFollows'
      BY <2>6 DEF BreaksAreTold, QueueIsTrue, MapFollows
    <2>10. MonitorFollows' /\ ArrivalsAreSeen'
      BY <1>0, <1>1, <2>6, KeptPromises
    <2> QED
      BY <2>7, <2>8, <2>9, <2>10 DEF EventsIInv
  <1>6. CASE MuxEnds
    <2>1. CASE listener \in {"list", "held", "follow"}
      <3>1. \E n \in 0 .. Len(queue) : queue' = Append(SubSeq(queue, 1, n), [type |-> "end"])
        BY <1>6, <2>1 DEF MuxEnds
      <3> QED
        BY <1>5, <3>1
    <2>2. CASE listener \notin {"list", "held", "follow"}
      <3>1. queue' = queue
        BY <1>3, <1>6, <2>2 DEF MuxEnds
      <3> QED
        BY <1>4, <2>2, <3>1
    <2> QED
      BY <2>1, <2>2
  <1>7. CASE MuxHangs \/ MuxAnswers \/ MuxReturns
    <2>1. queue' = queue /\ ~MuxEnds
      BY <1>0, <1>7 DEF MuxHangs, MuxAnswers, MuxReturns, MuxEnds, EventTypes
    <2> QED
      BY <1>4, <2>1
  <1> QED
    BY <1>6, <1>7 DEF MuxExits, MuxIsKilled

LEMMA QuietBooks ==
  ASSUME EventsIInv
  PROVE  /\ EventTypes /\ BreaksAreTold /\ QueueIsTrue /\ MapFollows /\ IdsAreOld /\ MonitorFollows /\ ArrivalsAreSeen
         /\ queue \in Seq(MuxEvents) /\ wire \in Seq(StreamEvents) /\ Len(wire) \in Nat /\ Len(queue) \in Nat
         /\ DOMAIN wire = 1 .. Len(wire) /\ DOMAIN queue = 1 .. Len(queue)
         /\ devices \subseteq MuxIds /\ PluggedIds \subseteq MuxIds
         /\ \A u \in Udids : plugged[u] \in Nat /\ plugs[u] \in Nat /\ plugged[u] \in {0, plugs[u]}
         /\ \A id \in PluggedIds : id[2] = plugged[id[1]] /\ id[2] = plugs[id[1]]
  <1>1. EventTypes /\ BreaksAreTold /\ QueueIsTrue /\ MapFollows /\ IdsAreOld /\ MonitorFollows /\ ArrivalsAreSeen
    BY DEF EventsIInv
  <1>2. queue \in Seq(MuxEvents) /\ wire \in Seq(StreamEvents) /\ devices \subseteq MuxIds
    BY <1>1 DEF EventTypes
  <1>3. Len(wire) \in Nat /\ Len(queue) \in Nat /\ DOMAIN wire = 1 .. Len(wire) /\ DOMAIN queue = 1 .. Len(queue)
    BY <1>2
  <1>4. \A u \in Udids : plugged[u] \in Nat /\ plugs[u] \in Nat /\ plugged[u] \in {0, plugs[u]}
    BY <1>1, EventsAssumption DEF EventTypes
  <1>5. \A id \in PluggedIds : id[2] = plugged[id[1]] /\ id[2] = plugs[id[1]]
    <2> SUFFICES ASSUME NEW id \in MuxIds, plugged[id[1]] = id[2]
                 PROVE  id[2] = plugs[id[1]]
      BY DEF PluggedIds
    <2>1. id[1] \in Udids /\ id[2] \in 1 .. MaxPlugs
      BY IdsOfPlugs
    <2>2. id[2] # 0
      BY <2>1, EventsAssumption
    <2> QED
      BY <1>4, <2>1, <2>2
  <1> QED
    BY <1>1, <1>2, <1>3, <1>4, <1>5 DEF PluggedIds

(* A new event on the wire: what it tells is what the monitor will know.   *)
LEMMA SentEvent ==
  ASSUME wire \in Seq(StreamEvents), NEW type, NEW ids \in SUBSET MuxIds,
         type \in {"snapshot", "connected", "disconnected", "reconnecting"},
         Sends(type, ids), current' = current, NEW n, n = Len(wire) + 1
  PROVE  /\ wire' \in Seq(StreamEvents) /\ Len(wire') <= MaxWire
         /\ Len(wire) \in Nat /\ Len(wire') = n
         /\ DOMAIN wire = 1 .. Len(wire) /\ DOMAIN wire' = 1 .. n
         /\ wire'[n] = [type |-> type, udids |-> UdidsOf(ids)]
         /\ \A i \in 1 .. n : \A K : KnownBefore(i, K) => KnownBefore(i, K)'
         /\ \A u : \A i \in DOMAIN wire : WillRefresh(u, i) => WillRefresh(u, i)'
         /\ type # "reconnecting" => \A K : K = UdidsOf(ids) => KnownBefore(n + 1, K)'
  <1> DEFINE e == [type |-> type, udids |-> UdidsOf(ids)]
  <1>1. e \in StreamEvents
    BY UdidsOfIds DEF StreamEvents
  <1>2. e.type = type /\ e.udids = UdidsOf(ids)
    OBVIOUS
  <1>3. wire' = Append(wire, e) /\ Len(wire) < MaxWire
    BY DEF Sends
  <1> HIDE DEF e
  <1>4. /\ wire' \in Seq(StreamEvents) /\ Len(wire) \in Nat /\ Len(wire') = n
        /\ DOMAIN wire = 1 .. Len(wire) /\ DOMAIN wire' = 1 .. n
        /\ \A i \in 1 .. Len(wire) : wire'[i] = wire[i]
        /\ wire'[n] = e
    BY <1>1, <1>3, GrownSequence
  <1>5. Len(wire') <= MaxWire
    BY <1>3, <1>4, EventsAssumption
  <1>6. ASSUME NEW j \in 0 .. n, NEW i \in 1 .. n, Silent(j, i)
        PROVE  Silent(j, i)'
    <2> SUFFICES ASSUME NEW k \in 1 .. n, j < k, k < i PROVE wire'[k].type = "reconnecting"
      BY <1>4 DEF Silent
    <2>1. k \in 1 .. Len(wire)
      BY <1>4
    <2> QED
      BY <1>4, <1>6, <2>1 DEF Silent
  <1>7. ASSUME NEW i \in 1 .. n, NEW K, KnownBefore(i, K)
        PROVE  KnownBefore(i, K)'
    <2>1. CASE Silent(0, i) /\ K = current
      <3>1. Silent(0, i)'
        BY <1>4, <1>6, <2>1
      <3> QED
        BY <2>1, <3>1 DEF KnownBefore
    <2>2. CASE \E j \in DOMAIN wire : j < i /\ wire[j].type # "reconnecting" /\ wire[j].udids = K /\ Silent(j, i)
      <3>1. PICK j \in 1 .. Len(wire) : j < i /\ wire[j].type # "reconnecting" /\ wire[j].udids = K /\ Silent(j, i)
        BY <1>4, <2>2
      <3>2. j \in 0 .. n /\ j \in DOMAIN wire' /\ wire'[j] = wire[j]
        BY <1>4, <3>1
      <3>3. Silent(j, i)'
        BY <1>6, <3>1, <3>2
      <3> QED
        BY <3>1, <3>2, <3>3 DEF KnownBefore
    <2> QED
      BY <1>7, <2>1, <2>2 DEF KnownBefore
  <1>8. ASSUME NEW u, NEW i \in 1 .. Len(wire), WillRefresh(u, i)
        PROVE  WillRefresh(u, i)'
    <2>1. wire'[i] = wire[i] /\ i \in 1 .. n
      BY <1>4
    <2>2. \A K : KnownBefore(i, K) => KnownBefore(i, K)'
      BY <1>7, <2>1
    <2> QED
      BY <1>8, <2>1, <2>2 DEF WillRefresh
  <1>9. ASSUME type # "reconnecting", NEW K, K = UdidsOf(ids)
        PROVE  KnownBefore(n + 1, K)'
    <2>1. n \in DOMAIN wire' /\ n < n + 1 /\ wire'[n].type # "reconnecting" /\ wire'[n].udids = K
      BY <1>2, <1>4, <1>9
    <2>2. Silent(n, n + 1)'
      <3>1. \A k \in 1 .. n : ~(n < k /\ k < n + 1)
        BY <1>4
      <3> QED
        BY <1>4, <3>1 DEF Silent
    <2> QED
      BY <2>1, <2>2 DEF KnownBefore
  <1> QED
    BY <1>4, <1>5, <1>7, <1>8, <1>9 DEF e

(* A set of events as a sequence.                                          *)
LEMMA SetAsSequence ==
  ASSUME NEW S, IsFiniteSet(S), NEW T, S \subseteq T
  PROVE  /\ SetToSeq(S) \in Seq(T)
         /\ \A i \in DOMAIN SetToSeq(S) : SetToSeq(S)[i] \in S
  <1> DEFINE n == Cardinality(S)
  <1>1. n \in Nat /\ \E f : f \in Bijection(1 .. n, S)
    BY FS_CardinalityType DEF ExistsBijection
  <1> HIDE DEF n
  <1>2. PICK f : f \in Bijection(1 .. n, S)
    BY <1>1
  <1>3. f \in [1 .. n -> S] /\ IsInjective(f)
    BY <1>2 DEF Bijection, Injection, IsInjective
  <1>4. SetToSeq(S) \in [1 .. n -> S]
    BY <1>3 DEF SetToSeq, n
  <1> HIDE DEF SetToSeq
  <1> QED
    BY <1>1, <1>4

LEMMA ListensKeepsEvents ==
  ASSUME EventsIInv, Listens
  PROVE  EventsIInv'
  <1> DEFINE P == {[type |-> "in", id |-> id] : id \in PluggedIds}
  <1>0. /\ EventTypes /\ IdsAreOld /\ devices \subseteq MuxIds /\ PluggedIds \subseteq MuxIds
        /\ \A u \in Udids : plugged[u] \in Nat /\ plugs[u] \in Nat
        /\ \A id \in PluggedIds : id[2] = plugged[id[1]] /\ id[2] = plugs[id[1]]
    BY QuietBooks
  <1>1. /\ listener' = "list" /\ muxState = "up"
        /\ UNCHANGED <<plugged, plugs, muxState, client, attempt, snapshotSeen, current, unseen, muxBreaks, losses,
                       devices, wire>>
    BY DEF Listens, listenerOnly, cables, monitor
  <1>2. queue' = <<>> \/ queue' = SetToSeq(P)
    BY DEF Listens
  <1>3. IsFiniteSet(P)
    <2>1. IsFiniteSet(MuxIds)
      <3>1. IsFiniteSet(1 .. MaxPlugs)
        BY EventsAssumption, FS_Interval
      <3> QED
        BY <3>1, EventsAssumption, FS_Product DEF MuxIds
    <2>2. IsFiniteSet(PluggedIds)
      BY <1>0, <2>1, FS_Subset
    <2> DEFINE g == [id \in PluggedIds |-> [type |-> "in", id |-> id]]
    <2>3. g \in Surjection(PluggedIds, P)
      BY DEF Surjection
    <2> HIDE DEF g, P
    <2> QED
      BY <2>2, <2>3, FS_Surjection
  <1>4. P \subseteq MuxEvents /\ \A e \in P : e.type = "in" /\ e.id \in PluggedIds
    BY <1>0 DEF MuxEvents
  <1> HIDE DEF P
  <1>5. queue' \in Seq(MuxEvents) /\ \A i \in DOMAIN queue' : queue'[i] \in P
    <2>1. CASE queue' = <<>>
      BY <2>1
    <2>2. CASE queue' = SetToSeq(P)
      BY <1>3, <1>4, <2>2, SetAsSequence
    <2> QED
      BY <1>2, <2>1, <2>2
  <1>6. \A i \in DOMAIN queue' : queue'[i].type = "in" /\ queue'[i].id \in PluggedIds
    BY <1>4, <1>5
  <1>7. PluggedIds' = PluggedIds
    BY <1>1 DEF PluggedIds
  <1>8. EventTypes'
    BY <1>0, <1>1, <1>5 DEF EventTypes
  <1>9. BreaksAreTold'
    BY <1>1 DEF BreaksAreTold
  <1>10. IdsAreOld'
    <2>1. \A i \in DOMAIN queue' : queue'[i].id[2] <= plugs[queue'[i].id[1]]
      BY <1>0, <1>6, IdsOfPlugs
    <2> QED
      BY <1>0, <1>1, <2>1 DEF IdsAreOld
  <1>11. QueueIsTrue'
    <2>1. \A i, j \in DOMAIN queue' : queue'[i].id[1] = queue'[j].id[1] => queue'[i].id[2] <= queue'[j].id[2]
      <3> SUFFICES ASSUME NEW i \in DOMAIN queue', NEW j \in DOMAIN queue', queue'[i].id[1] = queue'[j].id[1]
                   PROVE  queue'[i].id[2] <= queue'[j].id[2]
        OBVIOUS
      <3>1. queue'[i].id[2] = plugged[queue'[i].id[1]] /\ queue'[j].id[2] = plugged[queue'[i].id[1]]
        BY <1>0, <1>6
      <3>2. queue'[i].id[2] \in Nat
        BY <1>0, <1>6, IdsOfPlugs
      <3> QED
        BY <3>1, <3>2
    <2> QED
      BY <1>6, <1>7, <2>1 DEF QueueIsTrue
  <1>12. MapFollows' /\ MonitorFollows' /\ ArrivalsAreSeen'
    BY <1>1 DEF MapFollows, MonitorFollows, ArrivalsAreSeen
  <1> QED
    BY <1>8, <1>9, <1>10, <1>11, <1>12 DEF EventsIInv

LEMMA ListsKeepsEvents ==
  ASSUME EventsIInv, Lists
  PROVE  EventsIInv'
  <1>0. /\ EventTypes /\ IdsAreOld /\ QueueIsTrue /\ wire \in Seq(StreamEvents) /\ PluggedIds \subseteq MuxIds
        /\ \A u \in Udids : plugged[u] \in Nat /\ plugs[u] \in Nat
        /\ \A id \in PluggedIds : id[2] = plugged[id[1]] /\ id[2] = plugs[id[1]]
    BY QuietBooks
  <1>1. /\ listener = "list" /\ muxState = "up" /\ listener' = "follow" /\ devices' = PluggedIds
        /\ Sends("snapshot", PluggedIds)
        /\ UNCHANGED <<plugged, plugs, muxState, client, attempt, snapshotSeen, current, unseen, muxBreaks, losses, queue>>
    BY DEF Lists, listenerOnly, cables, monitor
  <1>a. PICK n : n = Len(wire) + 1
    OBVIOUS
  <1>b. PICK K : K = UdidsOf(PluggedIds)
    OBVIOUS
  <1>2. /\ wire' \in Seq(StreamEvents) /\ Len(wire') <= MaxWire
        /\ Len(wire) \in Nat /\ Len(wire') = n /\ DOMAIN wire' = 1 .. n
        /\ wire'[n] = [type |-> "snapshot", udids |-> K]
        /\ KnownBefore(n + 1, K)'
    BY <1>0, <1>1, <1>a, <1>b, SentEvent
  <1>3. PluggedIds' = PluggedIds
    BY <1>1 DEF PluggedIds
  <1>4. EventTypes'
    BY <1>0, <1>1, <1>2 DEF EventTypes
  <1>5. BreaksAreTold' /\ QueueIsTrue'
    BY <1>0, <1>1, <1>3 DEF BreaksAreTold, QueueIsTrue, Unbroken
  <1>6. MapFollows'
    BY <1>1, <1>3 DEF MapFollows
  <1>7. IdsAreOld'
    BY <1>0, <1>1, IdsOfPlugs DEF IdsAreOld
  <1>8. MonitorFollows'
    <2>1. Len(wire') + 1 = n + 1 /\ UdidsOf(devices') = K
      BY <1>1, <1>2, <1>b
    <2> QED
      BY <1>2, <2>1 DEF MonitorFollows
  <1>9. ArrivalsAreSeen'
    <2> SUFFICES ASSUME NEW u \in Udids, <<u, plugged[u]>> \in PluggedIds
                 PROVE  \E i \in DOMAIN wire' : WillRefresh(u, i)'
      BY <1>1 DEF ArrivalsAreSeen
    <2>1. u \in K
      BY <1>b DEF UdidsOf
    <2>2. n \in DOMAIN wire'
      BY <1>2, <1>a
    <2>3. WillRefresh(u, n)'
      BY <1>2, <2>1 DEF WillRefresh
    <2> QED
      BY <2>2, <2>3
  <1> QED
    BY <1>4, <1>5, <1>6, <1>7, <1>8, <1>9 DEF EventsIInv

LEMMA ListenerLeavesKeepsEvents ==
  ASSUME EventsIInv, IsHeld \/ TellsRetry \/ Retries
  PROVE  EventsIInv'
  <1>0. EventTypes /\ IdsAreOld /\ wire \in Seq(StreamEvents) /\ devices \subseteq MuxIds
    BY QuietBooks
  <1>1. /\ listener' \in {"held", "retry", "connect"}
        /\ UNCHANGED <<plugged, plugs, muxState, client, attempt, snapshotSeen, current, unseen, muxBreaks, losses, devices>>
    BY DEF IsHeld, TellsRetry, Retries, listenerOnly, cables, monitor
  <1>2. queue' = <<>> \/ queue' = queue
    BY DEF IsHeld, TellsRetry, Retries
  <1>3. wire' \in Seq(StreamEvents) /\ Len(wire') <= MaxWire
    <2>1. CASE wire' = wire
      BY <1>0, <2>1 DEF EventTypes
    <2>2. CASE Sends("reconnecting", devices)
      BY <1>0, <1>1, <2>2, SentEvent
    <2> QED
      BY <2>1, <2>2 DEF IsHeld, TellsRetry, Retries
  <1>4. queue' \in Seq(MuxEvents)
    <2>1. queue \in Seq(MuxEvents) /\ <<>> \in Seq(MuxEvents)
      BY <1>0 DEF EventTypes
    <2> QED
      BY <1>2, <2>1
  <1>5. EventTypes'
    BY <1>0, <1>1, <1>3, <1>4 DEF EventTypes
  <1>6. IdsAreOld'
    BY <1>0, <1>1, <1>2 DEF IdsAreOld
  <1> QED
    BY <1>1, <1>5, <1>6, UnheardKeepsEvents

(* The stream is opened, or hung up.                                       *)
LEMMA StreamKeepsEvents ==
  ASSUME EventsIInv, Opens \/ StreamIsLost \/ DeadlinePasses \/ StopsMonitoring
  PROVE  EventsIInv'
  <1>0. EventTypes
    BY QuietBooks
  <1>1. /\ listener' \in {"connect", "none"} /\ queue' = <<>> /\ devices' = {} /\ wire' = <<>>
        /\ UNCHANGED <<plugged, plugs, muxState, current, unseen, muxBreaks>>
        /\ snapshotSeen' \in {snapshotSeen, FALSE}
    BY DEF Opens, StreamIsLost, DeadlinePasses, StopsMonitoring, HangUp, cables
  <1>2. /\ client' \in {"apart", "opening", "over"} /\ attempt' \in 0 .. 2
        /\ client' \in {"opening", "following"} => attempt' # 0
        /\ losses' \in 0 .. MaxLosses
    <2>1. attempt \in 0 .. 2 /\ losses \in 0 .. MaxLosses /\ MaxLosses \in Nat
      BY <1>0, EventsAssumption DEF EventTypes
    <2>2. CASE Opens
      BY <2>1, <2>2 DEF Opens
    <2>3. CASE StreamIsLost \/ DeadlinePasses \/ StopsMonitoring
      BY <2>1, <2>3 DEF StreamIsLost, DeadlinePasses, StopsMonitoring, HangUp
    <2> QED
      BY <2>2, <2>3
  <1>3. <<>> \in Seq(MuxEvents) /\ <<>> \in Seq(StreamEvents) /\ Len(<<>>) <= MaxWire
    BY EventsAssumption
  <1>4. snapshotSeen' \in BOOLEAN
    BY <1>0, <1>1 DEF EventTypes
  <1>5. EventTypes'
    BY <1>0, <1>1, <1>2, <1>3, <1>4 DEF EventTypes
  <1>6. IdsAreOld'
    BY <1>1 DEF IdsAreOld
  <1> QED
    BY <1>1, <1>5, <1>6, UnheardKeepsEvents
(* The listener reads an event off the queue and the map follows it.       *)
LEMMA ReadKeepsMap ==
  ASSUME EventsIInv, listener = "follow", queue # <<>>, Head(queue).type # "end", queue' = Tail(queue),
         devices' = IF Head(queue).type = "in" THEN devices \cup {Head(queue).id} ELSE devices \ {Head(queue).id},
         UNCHANGED <<plugged, plugs, muxState, listener>>
  PROVE  /\ queue' \in Seq(MuxEvents)
         /\ Unbroken' => Unbroken
         /\ BreaksAreTold' /\ QueueIsTrue' /\ MapFollows' /\ IdsAreOld'
  <1> DEFINE e == Head(queue)
             n == Len(queue)
  <1>0. /\ BreaksAreTold /\ QueueIsTrue /\ MapFollows /\ IdsAreOld /\ queue \in Seq(MuxEvents) /\ devices \subseteq MuxIds
        /\ \A u \in Udids : plugged[u] \in Nat /\ plugs[u] \in Nat
    BY QuietBooks
  <1>1. /\ queue' \in Seq(MuxEvents) /\ n \in Nat \ {0}
        /\ DOMAIN queue = 1 .. n /\ DOMAIN queue' = 1 .. (n - 1)
        /\ \A i \in 1 .. (n - 1) : queue'[i] = queue[i + 1]
        /\ e = queue[1]
    BY <1>0, ReadSequence
  <1>2. e.id \in MuxIds /\ e.type \in {"in", "out"} /\ 1 \in DOMAIN queue
    BY <1>0, <1>1, AnnouncedIds
  <1>3. devices' = IF e.type = "in" THEN devices \cup {e.id} ELSE devices \ {e.id}
    OBVIOUS
  <1>4. PluggedIds' = PluggedIds
    BY DEF PluggedIds
  <1>5. e.type # "end"
    OBVIOUS
  <1> HIDE DEF e, n
  <1>6. ASSUME NEW i \in 1 .. n, i # 1
        PROVE  i - 1 \in 1 .. (n - 1) /\ queue'[i - 1] = queue[i]
    <2>1. i - 1 \in 1 .. (n - 1) /\ (i - 1) + 1 = i
      BY <1>1, <1>6
    <2> QED
      BY <1>1, <2>1
  <1>7. ASSUME NEW i \in 1 .. (n - 1)
        PROVE  i + 1 \in 1 .. n /\ queue'[i] = queue[i + 1]
    BY <1>1
  <1>8. Unbroken' => Unbroken
    BY <1>1, <1>5, <1>6 DEF Unbroken
  <1>9. Unbroken => Unbroken'
    BY <1>1, <1>7 DEF Unbroken
  <1>10. BreaksAreTold'
    BY <1>0, <1>8 DEF BreaksAreTold
  <1>11. IdsAreOld'
    <2>1. \A i \in 1 .. (n - 1) : queue'[i].type # "end" => queue'[i].id[2] <= plugs[queue'[i].id[1]]
      BY <1>0, <1>1, <1>7 DEF IdsAreOld
    <2>2. e.id[2] <= plugs[e.id[1]]
      BY <1>0, <1>1, <1>2, <1>5 DEF IdsAreOld
    <2>3. \A id \in devices' : id[2] <= plugs[id[1]]
      BY <1>0, <1>3, <2>2 DEF IdsAreOld
    <2> QED
      BY <1>1, <2>1, <2>3 DEF IdsAreOld
  <1>12. QueueIsTrue'
    <2> SUFFICES ASSUME Unbroken'
                 PROVE  /\ \A i \in 1 .. (n - 1) :
                             (\A j \in 1 .. (n - 1) : j > i => queue'[j].id # queue'[i].id)
                               => (queue'[i].type = "in" <=> queue'[i].id \in PluggedIds)
                        /\ \A i, j \in 1 .. (n - 1) :
                             i < j /\ queue'[i].id[1] = queue'[j].id[1] => queue'[i].id[2] <= queue'[j].id[2]
      BY <1>1, <1>4 DEF QueueIsTrue
    <2>1. Unbroken
      BY <1>8
    <2>2. ASSUME NEW i \in 1 .. (n - 1), \A j \in 1 .. (n - 1) : j > i => queue'[j].id # queue'[i].id
          PROVE  queue'[i].type = "in" <=> queue'[i].id \in PluggedIds
      <3>1. i + 1 \in 1 .. n /\ queue'[i] = queue[i + 1]
        BY <1>7
      <3>2. ASSUME NEW j \in 1 .. n, j > i + 1
            PROVE  queue[j].id # queue[i + 1].id
        <4>1. j # 1 /\ j - 1 > i
          BY <1>1, <3>2
        <4>2. j - 1 \in 1 .. (n - 1) /\ queue'[j - 1] = queue[j]
          BY <1>6, <4>1
        <4> QED
          BY <2>2, <3>1, <4>1, <4>2
      <3> QED
        BY <1>0, <1>1, <2>1, <3>1, <3>2 DEF QueueIsTrue
    <2>3. ASSUME NEW i \in 1 .. (n - 1), NEW j \in 1 .. (n - 1), i < j, queue'[i].id[1] = queue'[j].id[1]
          PROVE  queue'[i].id[2] <= queue'[j].id[2]
      <3>1. i + 1 \in 1 .. n /\ queue'[i] = queue[i + 1] /\ j + 1 \in 1 .. n /\ queue'[j] = queue[j + 1]
        BY <1>7
      <3>2. i + 1 < j + 1
        BY <1>1, <2>3
      <3> QED
        BY <1>0, <1>1, <2>1, <2>3, <3>1, <3>2 DEF QueueIsTrue
    <2> QED
      BY <2>2, <2>3
  <1>13. MapFollows'
    <2> SUFFICES ASSUME Unbroken', NEW id \in MuxIds, \A i \in 1 .. (n - 1) : queue'[i].id # id
                 PROVE  id \in devices' <=> id \in PluggedIds
      BY <1>1, <1>4 DEF MapFollows
    <2>1. Unbroken
      BY <1>8
    <2>2. \A i \in 1 .. n : i # 1 => queue[i].id # id
      BY <1>6
    <2>3. CASE e.id = id
      <3>1. \A j \in 1 .. n : j > 1 => queue[j].id # queue[1].id
        BY <1>1, <2>2, <2>3
      <3>2. e.type = "in" <=> id \in PluggedIds
        BY <1>0, <1>1, <1>2, <2>1, <2>3, <3>1 DEF QueueIsTrue
      <3> QED
        BY <1>3, <2>3, <3>2
    <2>4. CASE e.id # id
      <3>1. \A i \in 1 .. n : queue[i].id # id
        BY <1>1, <2>2, <2>4
      <3>2. id \in devices <=> id \in PluggedIds
        BY <1>0, <1>1, <2>1, <3>1 DEF MapFollows
      <3> QED
        BY <1>3, <2>4, <3>2
    <2> QED
      BY <2>3, <2>4
  <1> QED
    BY <1>1, <1>8, <1>10, <1>11, <1>12, <1>13

(* When the arrival of a device that is plugged in is read, the map has no *)
(* earlier id of it.                                                       *)
LEMMA ArrivalIsNew ==
  ASSUME EventsIInv, listener = "follow", Unbroken, queue # <<>>, NEW u \in Udids, plugged[u] # 0,
         Head(queue).id = <<u, plugged[u]>>, <<u, plugged[u]>> \notin devices
  PROVE  u \notin UdidsOf(devices)
  <1>0. /\ QueueIsTrue /\ MapFollows /\ IdsAreOld /\ queue \in Seq(MuxEvents) /\ devices \subseteq MuxIds
        /\ plugged[u] \in Nat /\ plugs[u] \in Nat /\ plugged[u] = plugs[u]
        /\ \A id \in PluggedIds : id[2] = plugged[id[1]]
    BY QuietBooks
  <1>1. DOMAIN queue = 1 .. Len(queue) /\ Len(queue) \in Nat \ {0} /\ Head(queue) = queue[1]
    BY <1>0, ReadSequence
  <1> SUFFICES ASSUME NEW id \in devices, id[1] = u PROVE FALSE
    BY DEF UdidsOf
  <1>2. id \in MuxIds /\ id[2] \in Nat /\ id = <<id[1], id[2]>> /\ id[2] <= plugs[u]
    BY <1>0, IdsOfPlugs DEF IdsAreOld
  <1>3. id # <<u, plugged[u]>> /\ id[2] < plugged[u]
    BY <1>0, <1>2
  <1>4. id \notin PluggedIds
    BY <1>0, <1>3
  <1>5. PICK i \in 1 .. Len(queue) : queue[i].id = id
    BY <1>0, <1>1, <1>2, <1>4 DEF MapFollows
  <1>6. i # 1 /\ 1 < i
    BY <1>1, <1>3, <1>5
  <1>7. queue[1].id[1] = u /\ queue[1].id[2] = plugged[u]
    BY <1>1
  <1>8. queue[1].id[2] <= queue[i].id[2]
    <2>1. 1 \in DOMAIN queue /\ i \in DOMAIN queue /\ queue[1].id[1] = queue[i].id[1]
      BY <1>1, <1>5, <1>7
    <2> QED
      BY <1>0, <1>6, <2>1 DEF QueueIsTrue
  <1> QED
    BY <1>0, <1>2, <1>3, <1>5, <1>7, <1>8

LEMMA FollowsKeepsEvents ==
  ASSUME EventsIInv, Follows
  PROVE  EventsIInv'
  <1>0. /\ EventTypes /\ MonitorFollows /\ ArrivalsAreSeen /\ wire \in Seq(StreamEvents) /\ devices \subseteq MuxIds
        /\ queue \in Seq(MuxEvents)
    BY QuietBooks
  <1>1. /\ listener = "follow" /\ queue # <<>> /\ queue' = Tail(queue) /\ Head(queue).type \in {"in", "out"}
        /\ UNCHANGED <<plugged, plugs, muxState, client, attempt, snapshotSeen, current, unseen, muxBreaks, losses, listener>>
        /\ devices' = IF Head(queue).type = "in" THEN devices \cup {Head(queue).id} ELSE devices \ {Head(queue).id}
    BY DEF Follows, listenerOnly, cables, monitor
  <1>2. PICK type : /\ type = IF Head(queue).type = "in" THEN "connected" ELSE "disconnected"
                    /\ Sends(type, devices')
    BY DEF Follows
  <1>3. /\ queue' \in Seq(MuxEvents)
        /\ Unbroken' => Unbroken
        /\ BreaksAreTold' /\ QueueIsTrue' /\ MapFollows' /\ IdsAreOld'
    BY <1>1, ReadKeepsMap
  <1>4. Head(queue).id \in MuxIds /\ devices' \subseteq MuxIds
    <2>1. Head(queue) \in MuxEvents
      BY <1>0, <1>1, ReadSequence
    <2>2. Head(queue).id \in MuxIds
      BY <1>1, <2>1 DEF MuxEvents
    <2> QED
      BY <1>0, <1>1, <2>2
  <1>a. PICK n : n = Len(wire) + 1
    OBVIOUS
  <1>b. PICK K : K = UdidsOf(devices')
    OBVIOUS
  <1>c. PICK ids : ids = devices'
    OBVIOUS
  <1>d. ids \in SUBSET MuxIds /\ Sends(type, ids) /\ K = UdidsOf(ids)
    BY <1>2, <1>4, <1>b, <1>c
  <1>e. type \in {"snapshot", "connected", "disconnected", "reconnecting"} /\ type # "reconnecting" /\ current' = current
    BY <1>1, <1>2
  <1>5. /\ wire' \in Seq(StreamEvents) /\ Len(wire') <= MaxWire
        /\ Len(wire) \in Nat /\ Len(wire') = n /\ DOMAIN wire = 1 .. Len(wire) /\ DOMAIN wire' = 1 .. n
        /\ wire'[n] = [type |-> type, udids |-> K]
        /\ \A i \in 1 .. n : \A L : KnownBefore(i, L) => KnownBefore(i, L)'
        /\ \A u : \A i \in DOMAIN wire : WillRefresh(u, i) => WillRefresh(u, i)'
        /\ KnownBefore(n + 1, K)'
    <2>1. /\ wire' \in Seq(StreamEvents) /\ Len(wire') <= MaxWire
          /\ Len(wire) \in Nat /\ Len(wire') = n
          /\ DOMAIN wire = 1 .. Len(wire) /\ DOMAIN wire' = 1 .. n
          /\ wire'[n] = [type |-> type, udids |-> UdidsOf(ids)]
          /\ \A i \in 1 .. n : \A L : KnownBefore(i, L) => KnownBefore(i, L)'
          /\ \A u : \A i \in DOMAIN wire : WillRefresh(u, i) => WillRefresh(u, i)'
          /\ type # "reconnecting" => \A L : L = UdidsOf(ids) => KnownBefore(n + 1, L)'
      BY <1>0, <1>a, <1>d, <1>e, SentEvent
    <2> QED
      BY <1>d, <1>e, <2>1
  <1>6. EventTypes'
    BY <1>0, <1>1, <1>3, <1>4, <1>5 DEF EventTypes
  <1>7. MonitorFollows'
    <2>1. Len(wire') + 1 = n + 1 /\ UdidsOf(devices') = K
      BY <1>5, <1>b
    <2> QED
      BY <1>5, <2>1 DEF MonitorFollows
  <1>8. ArrivalsAreSeen'
    <2> SUFFICES ASSUME Unbroken', NEW u \in Udids, plugged[u] # 0, u \in unseen, <<u, plugged[u]>> \in devices'
                 PROVE  \E i \in DOMAIN wire' : WillRefresh(u, i)'
      BY <1>1 DEF ArrivalsAreSeen
    <2>1. Unbroken
      BY <1>3
    <2>2. CASE <<u, plugged[u]>> \in devices
      <3>1. PICK i \in DOMAIN wire : WillRefresh(u, i)
        BY <1>0, <1>1, <2>1, <2>2 DEF ArrivalsAreSeen
      <3>2. i \in DOMAIN wire'
        BY <1>5, <1>a
      <3> QED
        BY <1>5, <3>1, <3>2
    <2>3. CASE <<u, plugged[u]>> \notin devices
      <3>1. Head(queue).type = "in" /\ Head(queue).id = <<u, plugged[u]>>
        BY <1>1, <2>3
      <3>2. u \notin UdidsOf(devices)
        BY <1>1, <2>1, <2>3, <3>1, ArrivalIsNew
      <3>3. PICK L : L = UdidsOf(devices)
        OBVIOUS
      <3>4. L \in SUBSET Udids /\ u \notin L
        BY <1>0, <3>2, <3>3, UdidsOfIds
      <3>5. KnownBefore(n, L)
        BY <1>0, <1>1, <1>a, <3>3 DEF MonitorFollows
      <3>6. n \in 1 .. n /\ n \in DOMAIN wire'
        BY <1>5, <1>a
      <3>7. KnownBefore(n, L)'
        BY <1>5, <3>5, <3>6
      <3>8. u \in K
        BY <1>b DEF UdidsOf
      <3>9. type = "connected"
        BY <1>2, <3>1
      <3>10. WillRefresh(u, n)'
        BY <1>5, <3>4, <3>7, <3>8, <3>9 DEF WillRefresh
      <3> QED
        BY <3>6, <3>10
    <2> QED
      BY <2>2, <2>3
  <1> QED
    BY <1>3, <1>6, <1>7, <1>8 DEF EventsIInv
(* The monitor takes an event off the wire: what it was to know before the *)
(* others it will know before them still.                                  *)
LEMMA TakenEvent ==
  ASSUME wire \in Seq(StreamEvents), wire # <<>>, wire' = Tail(wire),
         current' = IF Head(wire).type = "reconnecting" THEN current ELSE Head(wire).udids
  PROVE  /\ \A i \in 2 .. (Len(wire) + 1) : \A K : KnownBefore(i, K) => KnownBefore(i - 1, K)'
         /\ \A u : \A i \in 2 .. Len(wire) : WillRefresh(u, i) => WillRefresh(u, i - 1)'
         /\ \A K : KnownBefore(1, K) => K = current
  <1> DEFINE e == Head(wire)
  <1>0. PICK n : n = Len(wire)
    OBVIOUS
  <1>1. /\ n \in Nat \ {0} /\ DOMAIN wire = 1 .. n /\ DOMAIN wire' = 1 .. (n - 1)
        /\ \A i \in 1 .. (n - 1) : wire'[i] = wire[i + 1]
        /\ e = wire[1]
    BY <1>0, ReadSequence
  <1>2. current' = IF e.type = "reconnecting" THEN current ELSE e.udids
    OBVIOUS
  <1> HIDE DEF e
  <1>3. ASSUME NEW k \in 1 .. n, k # 1
        PROVE  k - 1 \in 1 .. (n - 1) /\ wire'[k - 1] = wire[k]
    <2>1. k - 1 \in 1 .. (n - 1) /\ (k - 1) + 1 = k
      BY <1>1, <1>3
    <2> QED
      BY <1>1, <2>1
  <1>4. ASSUME NEW j \in 1 .. n, NEW i \in 2 .. (n + 1), Silent(j, i)
        PROVE  Silent(j - 1, i - 1)'
    <2> SUFFICES ASSUME NEW k \in 1 .. (n - 1), j - 1 < k, k < i - 1 PROVE wire'[k].type = "reconnecting"
      BY <1>1 DEF Silent
    <2>1. k + 1 \in 1 .. n /\ j < k + 1 /\ k + 1 < i
      BY <1>1
    <2>2. wire[k + 1].type = "reconnecting"
      BY <1>1, <1>4, <2>1 DEF Silent
    <2> QED
      BY <1>1, <2>2
  <1>5. ASSUME NEW i \in 2 .. (n + 1), NEW K, KnownBefore(i, K)
        PROVE  KnownBefore(i - 1, K)'
    <2>1. CASE Silent(0, i) /\ K = current
      <3>1. 1 \in DOMAIN wire /\ 0 < 1 /\ 1 < i
        BY <1>1
      <3>2. e.type = "reconnecting"
        BY <1>1, <2>1, <3>1 DEF Silent
      <3>3. Silent(1, i)
        <4> SUFFICES ASSUME NEW k \in 1 .. n, 1 < k, k < i PROVE wire[k].type = "reconnecting"
          BY <1>1 DEF Silent
        <4>1. 0 < k
          BY <1>1
        <4> QED
          BY <1>1, <2>1, <4>1 DEF Silent
      <3>4. Silent(1 - 1, i - 1)'
        BY <1>1, <1>4, <3>3
      <3>5. Silent(0, i - 1)'
        BY <3>4
      <3> QED
        BY <1>2, <2>1, <3>2, <3>5 DEF KnownBefore
    <2>2. CASE \E j \in DOMAIN wire : j < i /\ wire[j].type # "reconnecting" /\ wire[j].udids = K /\ Silent(j, i)
      <3>1. PICK j \in 1 .. n : j < i /\ wire[j].type # "reconnecting" /\ wire[j].udids = K /\ Silent(j, i)
        BY <1>1, <2>2
      <3>2. Silent(j - 1, i - 1)'
        BY <1>4, <3>1
      <3>3. CASE j = 1
        <4>1. K = current'
          BY <1>1, <1>2, <3>1, <3>3
        <4>2. j - 1 = 0
          BY <3>3
        <4>3. Silent(0, i - 1)'
          BY <3>2, <4>2
        <4> QED
          BY <4>1, <4>3 DEF KnownBefore
      <3>4. CASE j # 1
        <4>1. j - 1 \in DOMAIN wire' /\ wire'[j - 1] = wire[j]
          BY <1>1, <1>3, <3>4
        <4>2. j - 1 < i - 1
          BY <1>1, <3>1
        <4> QED
          BY <3>1, <3>2, <4>1, <4>2 DEF KnownBefore
      <3> QED
        BY <3>3, <3>4
    <2> QED
      BY <1>5, <2>1, <2>2 DEF KnownBefore
  <1>6. ASSUME NEW u, NEW i \in 2 .. n, WillRefresh(u, i)
        PROVE  WillRefresh(u, i - 1)'
    <2>1. i \in 1 .. n /\ i # 1 /\ i \in 2 .. (n + 1)
      BY <1>1
    <2>2. wire'[i - 1] = wire[i]
      BY <1>3, <2>1
    <2>3. \A K : KnownBefore(i, K) => KnownBefore(i - 1, K)'
      BY <1>5, <2>1
    <2> QED
      BY <1>6, <2>2, <2>3 DEF WillRefresh
  <1>7. ASSUME NEW K, KnownBefore(1, K)
        PROVE  K = current
    <2>1. \A j \in DOMAIN wire : ~(j < 1)
      BY <1>1
    <2> QED
      BY <1>7, <2>1 DEF KnownBefore
  <1> QED
    BY <1>0, <1>5, <1>6, <1>7

LEMMA ReceivesKeepsEvents ==
  ASSUME EventsIInv, Receives
  PROVE  EventsIInv'
  <1> DEFINE e == Head(wire)
             refreshed == UdidsToRefresh(e) \cup IF attempt = 1 /\ ~snapshotSeen THEN e.udids ELSE {}
  <1>0. /\ EventTypes /\ BreaksAreTold /\ QueueIsTrue /\ MapFollows /\ IdsAreOld
        /\ MonitorFollows /\ ArrivalsAreSeen /\ wire \in Seq(StreamEvents)
    BY QuietBooks
  <1>1. /\ client \in {"opening", "following"} /\ wire # <<>> /\ client' = "following" /\ wire' = Tail(wire)
        /\ UNCHANGED <<plugged, plugs, muxState, listener, queue, devices, attempt, muxBreaks, losses>>
    BY DEF Receives, cables
  <1>2. /\ e.type = "reconnecting" => UNCHANGED <<snapshotSeen, current, unseen>>
        /\ e.type # "reconnecting" =>
             /\ current' = e.udids /\ snapshotSeen' = (snapshotSeen \/ e.type = "snapshot")
             /\ unseen' = unseen \ refreshed
    BY DEF Receives
  <1>3. /\ wire' \in Seq(StreamEvents) /\ Len(wire) \in Nat \ {0} /\ Len(wire') = Len(wire) - 1
        /\ DOMAIN wire = 1 .. Len(wire) /\ DOMAIN wire' = 1 .. (Len(wire) - 1)
        /\ e = wire[1] /\ e \in StreamEvents
    BY <1>0, <1>1, ReadSequence
  <1>4. e.type \in {"snapshot", "connected", "disconnected", "reconnecting"} /\ e.udids \in SUBSET Udids
    BY <1>3 DEF StreamEvents
  <1>a. attempt \in {1, 2}
    BY <1>0, <1>1 DEF EventTypes
  <1>5. \A u \in e.udids : e.type = "snapshot" \/ (e.type = "connected" /\ u \notin current) => u \in refreshed
    <2> SUFFICES ASSUME NEW u \in e.udids, e.type = "snapshot" \/ (e.type = "connected" /\ u \notin current)
                 PROVE  u \in refreshed
      OBVIOUS
    <2>1. CASE e.type = "snapshot"
      <3>1. CASE attempt > 1 \/ snapshotSeen
        <4>1. UdidsToRefresh(e) = current \cup e.udids
          BY <2>1, <3>1 DEF UdidsToRefresh
        <4> QED
          BY <4>1
      <3>2. CASE ~(attempt > 1 \/ snapshotSeen)
        BY <1>a, <3>2
      <3> QED
        BY <3>1, <3>2
    <2>2. CASE e.type = "connected" /\ u \notin current
      <3>1. UdidsToRefresh(e) = e.udids \ current
        BY <2>2 DEF UdidsToRefresh
      <3> QED
        BY <2>2, <3>1
    <2> QED
      BY <2>1, <2>2
  <1>b. current' = IF e.type = "reconnecting" THEN current ELSE e.udids
    BY <1>2
  <1>6. /\ \A i \in 2 .. (Len(wire) + 1) : \A K : KnownBefore(i, K) => KnownBefore(i - 1, K)'
        /\ \A u : \A i \in 2 .. Len(wire) : WillRefresh(u, i) => WillRefresh(u, i - 1)'
        /\ \A K : KnownBefore(1, K) => K = current
    BY <1>0, <1>1, <1>b, TakenEvent
  <1> HIDE DEF e, refreshed
  <1>7. EventTypes'
    <2>1. current' \subseteq Udids /\ unseen' \subseteq Udids /\ snapshotSeen' \in BOOLEAN
      BY <1>0, <1>2, <1>4 DEF EventTypes
    <2>2. Len(wire') <= MaxWire
      BY <1>0, <1>3, EventsAssumption DEF EventTypes
    <2> QED
      BY <1>0, <1>1, <1>3, <1>a, <2>1, <2>2 DEF EventTypes
  <1>8. BreaksAreTold' /\ QueueIsTrue' /\ MapFollows' /\ IdsAreOld'
    BY <1>0, <1>1 DEF BreaksAreTold, QueueIsTrue, MapFollows, IdsAreOld, Unbroken, PluggedIds
  <1>9. MonitorFollows'
    <2> SUFFICES ASSUME listener = "follow"
                 PROVE  KnownBefore(Len(wire) + 1, UdidsOf(devices))'
      BY <1>1 DEF MonitorFollows
    <2>1. PICK n : n = Len(wire) + 1
      OBVIOUS
    <2>2. PICK K : K = UdidsOf(devices)
      OBVIOUS
    <2>3. KnownBefore(n, K)
      BY <1>0, <2>1, <2>2 DEF MonitorFollows
    <2>4. n \in 2 .. (Len(wire) + 1)
      BY <1>3, <2>1
    <2>5. KnownBefore(n - 1, K)'
      BY <1>6, <2>3, <2>4
    <2>6. Len(wire') + 1 = n - 1 /\ UdidsOf(devices') = K
      BY <1>1, <1>3, <2>1, <2>2
    <2> QED
      BY <2>5, <2>6
  <1>10. ArrivalsAreSeen'
    <2> SUFFICES ASSUME listener = "follow", Unbroken, NEW u \in Udids, plugged[u] # 0, u \in unseen',
                        <<u, plugged[u]>> \in devices
                 PROVE  \E i \in DOMAIN wire' : WillRefresh(u, i)'
      BY <1>1 DEF ArrivalsAreSeen, Unbroken
    <2>1. u \in unseen
      BY <1>2
    <2>2. PICK i \in DOMAIN wire : WillRefresh(u, i)
      BY <1>0, <2>1 DEF ArrivalsAreSeen
    <2>3. CASE i = 1
      <3>1. u \in e.udids /\ (e.type = "snapshot" \/ (e.type = "connected" /\ u \notin current))
        BY <1>3, <1>6, <2>2, <2>3 DEF WillRefresh
      <3>2. u \in refreshed /\ e.type # "reconnecting"
        BY <1>5, <3>1
      <3> QED
        BY <1>2, <3>2
    <2>4. CASE i # 1
      <3>1. i \in 2 .. Len(wire) /\ i - 1 \in DOMAIN wire'
        BY <1>3, <2>4
      <3> QED
        BY <1>6, <2>2, <3>1
    <2> QED
      BY <2>3, <2>4
  <1> QED
    BY <1>7, <1>8, <1>9, <1>10 DEF EventsIInv

LEMMA EventsUnchangedKeepsIInv == EventsIInv /\ UNCHANGED eventsVars => EventsIInv'
  <1> SUFFICES ASSUME EventsIInv, UNCHANGED eventsVars PROVE EventsIInv'
    OBVIOUS
  <1>0. /\ EventTypes /\ BreaksAreTold /\ QueueIsTrue /\ MapFollows /\ IdsAreOld /\ MonitorFollows /\ ArrivalsAreSeen
    BY QuietBooks
  <1>1. EventTypes' /\ BreaksAreTold' /\ QueueIsTrue' /\ MapFollows' /\ IdsAreOld'
    BY <1>0 DEF EventTypes, BreaksAreTold, QueueIsTrue, MapFollows, IdsAreOld, Unbroken, PluggedIds, eventsVars
  <1>2. UNCHANGED <<wire, current, devices, listener>> /\ (Unbroken' => Unbroken)
    BY DEF eventsVars, Unbroken
  <1>3. \A u \in Udids : plugged'[u] # 0 /\ u \in unseen' /\ <<u, plugged'[u]>> \in devices
                            => plugged'[u] = plugged[u] /\ u \in unseen
    BY DEF eventsVars
  <1>4. MonitorFollows' /\ ArrivalsAreSeen'
    BY <1>0, <1>2, <1>3, KeptPromises
  <1> QED
    BY <1>1, <1>4 DEF EventsIInv

LEMMA EventsNextIInv == EventsIInv /\ [EventsNext]_eventsVars => EventsIInv'
  BY PlugKeepsEvents, UnplugKeepsEvents, MuxKeepsEvents, ListensKeepsEvents, ListsKeepsEvents,
     ListenerLeavesKeepsEvents, StreamKeepsEvents, FollowsKeepsEvents, ReceivesKeepsEvents, EventsUnchangedKeepsIInv
     DEF EventsNext, ListenerStep, MonitorStep

(* With nothing on its way, the invariant is the property.                 *)
LEMMA EventsIInvImpliesExact == EventsIInv => EventsAreExact
  <1> SUFFICES ASSUME EventsIInv, CaughtUp
               PROVE  current = UdidsOf(PluggedIds) /\ unseen \cap current = {}
    BY DEF EventsAreExact
  <1>0. /\ EventTypes /\ MapFollows /\ MonitorFollows /\ ArrivalsAreSeen /\ devices \subseteq MuxIds
        /\ PluggedIds \subseteq MuxIds
        /\ \A id \in PluggedIds : id[2] = plugged[id[1]] /\ id[2] = plugs[id[1]]
    BY QuietBooks
  <1>1. listener = "follow" /\ queue = <<>> /\ wire = <<>>
    BY DEF CaughtUp
  <1>2. DOMAIN queue = {} /\ DOMAIN wire = {}
    BY <1>1
  <1>3. Unbroken /\ devices = PluggedIds
    <2>1. Unbroken
      BY <1>2 DEF Unbroken
    <2>2. \A id \in MuxIds : id \in devices <=> id \in PluggedIds
      BY <1>0, <1>1, <1>2, <2>1 DEF MapFollows
    <2> QED
      BY <1>0, <2>1, <2>2
  <1>4. current = UdidsOf(devices)
    BY <1>0, <1>1, <1>2 DEF MonitorFollows, KnownBefore
  <1>5. ASSUME NEW u \in unseen, u \in UdidsOf(PluggedIds)
        PROVE  FALSE
    <2>1. PICK id \in PluggedIds : u = id[1]
      BY <1>5 DEF UdidsOf
    <2>2. id \in MuxIds /\ id = <<u, plugged[u]>> /\ u \in Udids /\ plugged[u] # 0
      <3>1. id \in MuxIds
        BY <1>0
      <3>2. id[1] \in Udids /\ id[2] \in 1 .. MaxPlugs /\ id = <<id[1], id[2]>>
        BY <3>1, IdsOfPlugs
      <3>3. id[2] = plugged[u]
        BY <1>0, <2>1
      <3>4. id[2] # 0
        BY <3>2, EventsAssumption
      <3> QED
        BY <2>1, <3>1, <3>2, <3>3, <3>4
    <2>3. \E i \in DOMAIN wire : WillRefresh(u, i)
      BY <1>0, <1>1, <1>3, <1>5, <2>1, <2>2 DEF ArrivalsAreSeen
    <2> QED
      BY <1>2, <2>3
  <1> QED
    BY <1>3, <1>4, <1>5

(* Once nothing is on its way the monitor knows the devices on the cable   *)
(* and each of them has been refreshed since it was plugged in, whatever   *)
(* the mux and the streams went through (stream_native_device_events,      *)
(* usbDeviceUdidsToRefresh).                                               *)
THEOREM EventsAlwaysExact == MCSpec => []EventsAreExact
  <1>1. MCInit => EventsIInv
    BY EventsInitIInv DEF MCInit
  <1>2. ASSUME EventsIInv, [MCNext]_<<part, libraryVars, shutdownVars, bridgeVars, eventsVars, poolVars>>
        PROVE  EventsIInv'
    <2>1. [EventsNext]_eventsVars
      BY <1>2 DEF MCNext, LibraryMoves, ShutdownMoves, BridgeMoves, EventsMove, PoolMoves
    <2> QED
      BY <1>2, <2>1, EventsNextIInv
  <1> QED
    BY <1>1, <1>2, EventsIInvImpliesExact, PTL DEF MCSpec

----------------------------------------------------------------------------
(* The types of the bridge: a recovery is asked for by an answered request *)
(* of the agent, so the channel holds no more of them than there are.      *)
Replied == {r \in Askers : op[r] = "answered"}

BridgeBooks ==
  /\ cancels \subseteq BridgeCalls /\ cancelled \subseteq BridgeCalls
  /\ mux \in {"starting", "up", "stalled", "waiting", "stopped"}
  /\ wanted \in Nat /\ wanted <= Cardinality(Replied)
  /\ recovery \in {"none", "probing", "killing"} /\ recent \in BOOLEAN
  /\ late \subseteq Openers /\ broken \subseteq Openers
  /\ muxFaults \in 0 .. MaxMuxFaults

LEMMA BridgeInitBooks == BridgeInit => BridgeBooks
  <1> SUFFICES ASSUME BridgeInit PROVE BridgeBooks
    OBVIOUS
  <1>1. Replied = {}
    BY DEF BridgeInit, Replied, BridgeCalls
  <1>2. Cardinality(Replied) = 0
    BY <1>1, FS_EmptySet
  <1>3. wanted \in Nat /\ wanted <= Cardinality(Replied)
    BY <1>2 DEF BridgeInit
  <1>4. muxFaults \in 0 .. MaxMuxFaults
    BY BridgeAssumption DEF BridgeInit
  <1>5. cancels \subseteq BridgeCalls /\ cancelled \subseteq BridgeCalls /\ late \subseteq Openers /\ broken \subseteq Openers
    BY DEF BridgeInit
  <1>6. mux \in {"starting", "up", "stalled", "waiting", "stopped"} /\ recovery = "none" /\ recent \in BOOLEAN
    BY DEF BridgeInit
  <1> QED
    BY <1>3, <1>4, <1>5, <1>6 DEF BridgeBooks

(* What was answered stays answered.                                       *)
LEMMA RepliedGrows ==
  ASSUME BridgeTypes, AnswersAreTrue, [BridgeNext]_bridgeVars
  PROVE  Replied \subseteq Replied'
  <1> SUFFICES ASSUME NEW r \in BridgeCalls, op[r] = "answered" PROVE op'[r] = "answered"
    BY DEF Replied, BridgeCalls
  <1>0. op \in [BridgeCalls -> {"none", "queued", "running", "opened", "done", "answered", "refused"}]
    BY DEF BridgeTypes
  <1>1. ASSUME NEW q \in BridgeCalls, SendCall(q) PROVE op'[r] = "answered"
    BY <1>0, <1>1 DEF SendCall, AnswersAreTrue
  <1>2. ASSUME NEW q \in BridgeCalls, Admit(q) \/ Turned(q) \/ Reply(q) \/ Executes(q) \/ Dropped(q)
        PROVE  op'[r] = "answered"
    BY <1>0, <1>2 DEF Admit, Turned, Reply, Executes, Dropped, Concludes
  <1>3. ASSUME NEW q \in BridgeCalls, Hear(q) \/ GiveUp(q) \/ CancelArrives(q) PROVE op'[r] = "answered"
    BY <1>3 DEF Hear, GiveUp, CancelArrives
  <1>4. ASSUME NEW q \in Openers,
               SpawnTunnel(q) \/ ListTunnel(q) \/ AcceptFails(q) \/ TunnelEnds(q) \/ CloseTunnel(q) \/ CloseBegins(q) \/ CloseIsLost(q)
        PROVE  op'[r] = "answered"
    BY <1>0, <1>4 DEF SpawnTunnel, ListTunnel, AcceptFails, TunnelEnds, CloseTunnel, CloseBegins, CloseIsLost, Concludes
  <1>5. CASE ClientsAreGone
    BY <1>5 DEF ClientsAreGone
  <1>6. CASE GateIsDrained \/ CloseAll \/ Terminate \/ UNCHANGED bridgeVars
    BY <1>6 DEF GateIsDrained, CloseAll, Terminate, bridgeVars
  <1>7. CASE \/ ProbeIsOver \/ KillMux \/ MuxIsStopped \/ MuxComesUp \/ MuxFails \/ MuxIsRestarted
             \/ TakeRecovery \/ AMinutePasses
    BY <1>7 DEF ProbeIsOver, KillMux, MuxIsStopped, MuxComesUp, MuxFails, MuxIsRestarted, TakeRecovery, AMinutePasses, rpc
  <1> QED
    BY <1>1, <1>2, <1>3, <1>4, <1>5, <1>6, <1>7 DEF BridgeNext, BridgeProgress

LEMMA BridgeNextBooks == BridgeIInv /\ BridgeBooks /\ [BridgeNext]_bridgeVars => BridgeBooks'
  <1> SUFFICES ASSUME BridgeIInv, BridgeBooks, [BridgeNext]_bridgeVars PROVE BridgeBooks'
    OBVIOUS
  <1>0. BridgeTypes /\ AnswersAreTrue
    BY DEF BridgeIInv
  <1>1. Replied \subseteq Replied' /\ IsFiniteSet(Replied) /\ IsFiniteSet(Replied')
    <2>1. Replied \subseteq Askers /\ Replied' \subseteq Askers
      BY DEF Replied
    <2> QED
      BY <1>0, <2>1, RepliedGrows, BridgeAssumption, FS_Subset
  <1>2. Cardinality(Replied) \in Nat /\ Cardinality(Replied') \in Nat /\ Cardinality(Replied) <= Cardinality(Replied')
    BY <1>1, FS_Subset, FS_CardinalityType
  <1>3. ASSUME NEW r \in BridgeCalls, Reply(r)
        PROVE  BridgeBooks'
    <2>1. /\ op[r] = "done" /\ op' = [op EXCEPT ![r] = "answered"]
          /\ UNCHANGED <<cancels, cancelled, mux, recovery, recent, late, broken, muxFaults>>
          /\ wanted' = IF outcome[r] = "deadline" /\ r \in Askers THEN wanted + 1 ELSE wanted
      BY <1>3 DEF Reply
    <2>2. wanted' \in Nat /\ wanted' <= Cardinality(Replied')
      <3>1. CASE outcome[r] = "deadline" /\ r \in Askers
        <4>1. r \in Replied' /\ r \notin Replied
          BY <1>0, <2>1, <3>1 DEF Replied, BridgeTypes
        <4>2. Cardinality(Replied \cup {r}) = Cardinality(Replied) + 1
          BY <1>1, <4>1, FS_AddElement
        <4>3. Replied \cup {r} \subseteq Replied'
          BY <1>1, <4>1
        <4>4. Cardinality(Replied \cup {r}) <= Cardinality(Replied')
          BY <1>1, <4>3, FS_Subset
        <4>5. wanted \in Nat /\ wanted <= Cardinality(Replied) /\ wanted' = wanted + 1
          BY <2>1, <3>1 DEF BridgeBooks
        <4> QED
          BY <1>2, <4>2, <4>4, <4>5
      <3>2. CASE ~(outcome[r] = "deadline" /\ r \in Askers)
        BY <1>2, <2>1, <3>2 DEF BridgeBooks
      <3> QED
        BY <3>1, <3>2
    <2> QED
      BY <2>1, <2>2 DEF BridgeBooks
  <1>4. CASE TakeRecovery
    BY <1>2, <1>4 DEF TakeRecovery, BridgeBooks, rpc, NobodyTunnels
  <1>5. ASSUME wanted' = wanted,
               /\ cancels' \subseteq BridgeCalls /\ cancelled' \subseteq BridgeCalls
               /\ mux' \in {"starting", "up", "stalled", "waiting", "stopped"}
               /\ recovery' \in {"none", "probing", "killing"} /\ recent' \in BOOLEAN
               /\ late' \subseteq Openers /\ broken' \subseteq Openers /\ muxFaults' \in 0 .. MaxMuxFaults
        PROVE  BridgeBooks'
    BY <1>2, <1>5 DEF BridgeBooks
  <1>6. ASSUME UNCHANGED <<mux, wanted, recovery, recent, late, broken, muxFaults>>,
               cancels' \subseteq BridgeCalls, cancelled' \subseteq BridgeCalls
        PROVE  BridgeBooks'
    BY <1>5, <1>6 DEF BridgeBooks
  <1>7. CASE UNCHANGED <<cancels, cancelled, mux, wanted, recovery, recent, late, broken, muxFaults>>
    BY <1>6, <1>7 DEF BridgeBooks
  <1>8. ASSUME NEW q \in BridgeCalls, GiveUp(q) \/ CancelArrives(q)
        PROVE  BridgeBooks'
    BY <1>6, <1>8 DEF GiveUp, CancelArrives, BridgeBooks, supervisor
  <1>9. CASE ProbeIsOver \/ KillMux \/ MuxIsStopped \/ MuxComesUp \/ MuxFails \/ MuxIsRestarted \/ AMinutePasses
    <2>1. UNCHANGED <<cancels, cancelled, wanted>>
      BY <1>9 DEF ProbeIsOver, KillMux, MuxIsStopped, MuxComesUp, MuxFails, MuxIsRestarted, AMinutePasses, rpc
    <2>2. /\ mux' \in {"starting", "up", "stalled", "waiting", "stopped"}
          /\ recovery' \in {"none", "probing", "killing"} /\ recent' \in BOOLEAN
          /\ late' \subseteq Openers /\ broken' \subseteq Openers
      BY <1>9 DEF ProbeIsOver, KillMux, MuxIsStopped, MuxComesUp, MuxFails, MuxIsRestarted, AMinutePasses, BridgeBooks
    <2>3. muxFaults' \in 0 .. MaxMuxFaults
      BY <1>9, BridgeAssumption
         DEF ProbeIsOver, KillMux, MuxIsStopped, MuxComesUp, MuxFails, MuxIsRestarted, AMinutePasses, BridgeBooks
    <2> QED
      BY <1>5, <2>1, <2>2, <2>3 DEF BridgeBooks
  <1>10. ASSUME NEW q \in BridgeCalls, SendCall(q) \/ Hear(q) \/ Admit(q) \/ Executes(q) \/ Dropped(q) \/ Turned(q)
         PROVE  BridgeBooks'
    BY <1>7, <1>10 DEF SendCall, Hear, Admit, Executes, Dropped, Turned, supervisor
  <1>11. ASSUME NEW q \in Openers,
                SpawnTunnel(q) \/ AcceptFails(q) \/ TunnelEnds(q) \/ CloseTunnel(q) \/ CloseBegins(q) \/ CloseIsLost(q)
         PROVE  BridgeBooks'
    BY <1>7, <1>11 DEF SpawnTunnel, AcceptFails, TunnelEnds, CloseTunnel, CloseBegins, CloseIsLost, supervisor
  <1>13. ASSUME NEW q \in Openers, ListTunnel(q) PROVE BridgeBooks'
    BY <1>5, <1>13 DEF ListTunnel, BridgeBooks
  <1>12. CASE GateIsDrained \/ ClientsAreGone \/ CloseAll \/ Terminate \/ UNCHANGED bridgeVars
    BY <1>7, <1>12 DEF GateIsDrained, ClientsAreGone, CloseAll, Terminate, supervisor, bridgeVars
  <1> QED
    BY <1>3, <1>4, <1>8, <1>9, <1>10, <1>11, <1>12, <1>13 DEF BridgeNext, BridgeProgress

LEMMA BridgeHasTypes == BridgeTypes /\ BridgeBooks => BridgeTypeOK
  <1>1. Replied \subseteq Askers
    BY DEF Replied
  <1>2. Cardinality(Replied) <= Cardinality(Askers) /\ Cardinality(Replied) \in Nat /\ Cardinality(Askers) \in Nat
    BY <1>1, BridgeAssumption, FS_Subset, FS_CardinalityType
  <1> QED
    BY <1>2 DEF BridgeTypes, BridgeBooks, BridgeTypeOK

LEMMA EventsHaveTypes == EventsIInv => EventsTypeOK
  <1> SUFFICES ASSUME EventTypes PROVE EventsTypeOK
    BY DEF EventsIInv
  <1>1. \A i \in DOMAIN queue : queue[i] \in MuxEvents
    BY DEF EventTypes
  <1>2. \A i \in DOMAIN wire : wire[i] \in StreamEvents
    BY DEF EventTypes
  <1> QED
    BY <1>1, <1>2 DEF EventTypes, EventsTypeOK

(* The state of every part of the process has its type, the number of      *)
(* recoveries in the channel included (main.rs, recovery channel).         *)
THEOREM ProcessWellTyped == MCSpec => []WellTyped
  <1> DEFINE Parts == LibraryIInv /\ ShutdownIInv /\ BridgeIInv /\ BridgeBooks /\ EventsIInv /\ PoolIInv
  <1>1. MCInit => Parts
    BY LibraryInitIInv, ShutdownInitIInv, BridgeInitIInv, BridgeInitBooks, EventsInitIInv, PoolInitIInv DEF MCInit
  <1>2. ASSUME Parts, [MCNext]_<<part, libraryVars, shutdownVars, bridgeVars, eventsVars, poolVars>>
        PROVE  Parts'
    <2>1. /\ LibraryNext \/ UNCHANGED libraryVars
          /\ [ShutdownNext]_shutdownVars /\ [BridgeNext]_bridgeVars /\ [EventsNext]_eventsVars /\ [PoolNext]_poolVars
      BY <1>2 DEF MCNext, LibraryMoves, ShutdownMoves, BridgeMoves, EventsMove, PoolMoves
    <2>2. LibraryIInv'
      BY <1>2, <2>1, LibraryKeepsIInv, LibraryUnchangedKeepsIInv
    <2> QED
      BY <1>2, <2>1, <2>2, ShutdownNextIInv, BridgeNextIInv, BridgeNextBooks, EventsNextIInv, PoolNextIInv
  <1>3. Parts => WellTyped
    BY BridgeHasTypes, EventsHaveTypes DEF LibraryIInv, ShutdownIInv, BridgeIInv, PoolIInv, WellTyped
  <1> QED
    BY <1>1, <1>2, <1>3, PTL DEF MCSpec
=============================================================================
