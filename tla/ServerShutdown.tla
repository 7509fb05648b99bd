--------------------------- MODULE ServerShutdown ---------------------------
(************************************************************************** *)
(* The graceful shutdown of the server (registerShutdownHandlers in        *)
(* packages/dkrypt/src/server.ts) over the background work it drains       *)
(* (backgroundWork.ts), the requests it lets finish and the job runs it    *)
(* waits for (shutdownJobs; what happens to the jobs is in JobStore).      *)
(*                                                                         *)
(* A timeout may fire at any moment, since work may take any time.  The    *)
(* handler of a request goes on when its client has gone, but server.close *)
(* waits for connections, not for handlers.                                *)
(************************************************************************** *)
EXTENDS FiniteSets

CONSTANTS
  Works,      \* operations handed to trackBackgroundWork
  StopWorks,  \* those the shutdown itself begins: telemetry, digests
  HttpRequests,   \* HTTP requests
  Runs        \* job runs

ASSUME StopWorksAssumption == StopWorks \subseteq Works

Drains == {"first", "final", "last"}

VARIABLES
  work,      \* work[w]: an operation begins once
  request,   \* request[r]; `left' when its client has gone, `cut' when its
             \* connection was closed by the shutdown, and its handler goes on
  orphans,   \* history: handlers without a connection after server.close()
  runs,      \* runningJobs
  shutdown,     \* how far the shutdown is
  asked,     \* drains that have begun
  settled,   \* drains whose completion has resolved
  heard,    \* heard[q]: what the shutdown learned of q
  closed     \* the stores are closed

shutdownVars == <<work, request, orphans, runs, shutdown, asked, settled, heard, closed>>

ShutdownStages == {"serving", "draining", "settling", "closing", "last", "over", "exited"}
Questions == {"jobs", "first", "rust", "final", "server"}

ShutdownTypeOK ==
  /\ work \in [Works -> {"idle", "running", "over"}]
  /\ request \in [HttpRequests -> {"idle", "open", "left", "cut", "over"}]
  /\ orphans \subseteq HttpRequests
  /\ runs \subseteq Runs
  /\ shutdown \in ShutdownStages
  /\ asked \subseteq Drains
  /\ settled \subseteq asked
  /\ heard \in [Questions -> {"none", "drained", "late"}]
  /\ closed \in BOOLEAN

Running == {w \in Works : work[w] = "running"}
Served  == {r \in HttpRequests : request[r] \in {"open", "left", "cut"}}
Serving == {r \in HttpRequests : request[r] = "open"}

ShutdownInit ==
  /\ work \in [Works -> {"idle", "running"}]
  /\ \A w \in StopWorks : work[w] = "idle"
  /\ request = [r \in HttpRequests |-> "idle"]
  /\ orphans = {}
  /\ runs \in SUBSET Runs
  /\ shutdown = "serving"
  /\ asked = {}
  /\ settled = {}
  /\ heard = [q \in Questions |-> "none"]
  /\ closed = FALSE

Alive == shutdown # "exited"

----------------------------------------------------------------------------
(* Work.                                                                   *)

(* waitForBackgroundWork resolves when nothing is tracked any more.        *)
WorkSettled(drains, now) == IF \E w \in Works : now[w] = "running" THEN settled ELSE drains

(* Timers begin work until the shutdown stops them; afterwards requests,   *)
(* job runs (their notifications) and other work do.                       *)
BeginWork(w) ==
  /\ Alive
  /\ work[w] = "idle" /\ w \notin StopWorks
  /\ shutdown = "serving" \/ Served # {} \/ runs # {} \/ Running # {}
  /\ work' = [work EXCEPT ![w] = "running"]
  /\ UNCHANGED <<request, orphans, runs, shutdown, asked, settled, heard, closed>>

EndWork(w) ==
  /\ Alive
  /\ work[w] = "running"
  /\ \/ work' = [work EXCEPT ![w] = "over"]
     \/ \E next \in Works \ StopWorks :
          /\ work[next] = "idle"
          /\ work' = [work EXCEPT ![w] = "over", ![next] = "running"]
  /\ settled' = WorkSettled(asked, work')
  /\ UNCHANGED <<request, orphans, runs, shutdown, asked, heard, closed>>

(* While the server drains, new requests only read.                        *)
OpenRequest(r) ==
  /\ shutdown \in {"serving", "draining", "settling"}
  /\ request[r] = "idle"
  /\ request' = [request EXCEPT ![r] = "open"]
  /\ UNCHANGED <<work, orphans, runs, shutdown, asked, settled, heard, closed>>

EndRequest(r) ==
  /\ Alive
  /\ r \in Served
  /\ request' = [request EXCEPT ![r] = "over"]
  /\ UNCHANGED <<work, orphans, runs, shutdown, asked, settled, heard, closed>>

(* The connection is gone, its handler is not.                             *)
ClientLeaves(r) ==
  /\ Alive
  /\ r \in Serving
  /\ request' = [request EXCEPT ![r] = "left"]
  /\ UNCHANGED <<work, orphans, runs, shutdown, asked, settled, heard, closed>>

EndRun(j) ==
  /\ Alive
  /\ j \in runs
  /\ runs' = runs \ {j}
  /\ UNCHANGED <<work, request, orphans, shutdown, asked, settled, heard, closed>>

----------------------------------------------------------------------------
(* The shutdown.                                                           *)

(* SIGTERM or SIGINT: no new jobs, no timers, two last works.              *)
BeginShutdown ==
  /\ shutdown = "serving"
  /\ shutdown' = "draining"
  /\ work' = [w \in Works |-> IF w \in StopWorks THEN "running" ELSE work[w]]
  /\ asked' = {"first"}
  /\ settled' = WorkSettled({"first"}, work')
  /\ UNCHANGED <<request, orphans, runs, heard, closed>>

(* Mutant: the wait has no time limit.                                     *)
HeardInTheEnd(q, drained) ==
  /\ heard[q] = "none"
  /\ drained
  /\ heard' = [heard EXCEPT ![q] = "drained"]

(* What a wait reports when it ends or its time is over.                   *)
Heard(q, drained) ==
  /\ heard[q] = "none"
  /\ heard' = [heard EXCEPT ![q] = IF drained THEN "drained" ELSE "late"]

(* The three parts of the first Promise.all answer in any order.           *)
AnswerFirst ==
  /\ shutdown = "draining"
  /\ \/ Heard("jobs", runs = {})
     \/ Heard("first", "first" \in settled)
     \/ \E stopped \in BOOLEAN : Heard("rust", stopped)
  /\ UNCHANGED <<work, request, orphans, runs, shutdown, asked, settled, closed>>

(* Mutant: the second drain takes the place of the first.                  *)
BeginOnlyDrain ==
  /\ shutdown = "draining"
  /\ \A q \in {"jobs", "first", "rust"} : heard[q] # "none"
  /\ shutdown' = "settling"
  /\ asked' = {"final"}
  /\ settled' = WorkSettled(asked', work)
  /\ UNCHANGED <<work, request, orphans, runs, heard, closed>>

BeginFinalDrain ==
  /\ shutdown = "draining"
  /\ \A q \in {"jobs", "first", "rust"} : heard[q] # "none"
  /\ shutdown' = "settling"
  /\ asked' = asked \cup {"final"}
  /\ settled' = WorkSettled(asked', work)
  /\ UNCHANGED <<work, request, orphans, runs, heard, closed>>

(* The second drain answers; the server takes no more connections.         *)
CloseServer ==
  /\ shutdown = "settling"
  /\ Heard("final", "final" \in settled)
  /\ shutdown' = "closing"
  /\ UNCHANGED <<work, request, orphans, runs, asked, settled, closed>>

(* server.close() has no connection left or its time is over; then the     *)
(* last drain begins.                                                      *)
BeginLastDrain ==
  /\ shutdown = "closing"
  /\ Heard("server", Serving = {})
  /\ request' = [r \in HttpRequests |-> IF request[r] = "open" THEN "cut" ELSE request[r]]
  /\ orphans' = {r \in HttpRequests : request[r] = "left"}
  /\ shutdown' = "last"
  /\ asked' = asked \cup {"last"}
  /\ settled' = WorkSettled(asked', work)
  /\ UNCHANGED <<work, runs, closed>>

(* Mutant: what remains of the requests does not count.                    *)
AllDrainedButRequests == \A q \in Questions \ {"server"} : heard[q] = "drained"

AllDrained == \A q \in Questions : heard[q] = "drained"

(* finishShutdown closes the stores; the process is ended if anything ever *)
(* was late, otherwise it ends by itself.                                  *)
FinishShutdown ==
  /\ shutdown = "last"
  /\ closed' = TRUE
  /\ shutdown' = IF AllDrained /\ "last" \in settled THEN "over" ELSE "exited"
  /\ UNCHANGED <<work, request, orphans, runs, asked, settled, heard>>

(* Every wait of the shutdown has a time limit.                            *)
ShutdownProgress ==
  AnswerFirst \/ BeginFinalDrain \/ CloseServer \/ BeginLastDrain \/ FinishShutdown

ShutdownNext ==
  \/ ShutdownProgress
  \/ BeginShutdown
  \/ \E w \in Works : BeginWork(w) \/ EndWork(w)
  \/ \E r \in HttpRequests : OpenRequest(r) \/ EndRequest(r) \/ ClientLeaves(r)
  \/ \E j \in Runs : EndRun(j)

ShutdownSpec ==
  ShutdownInit /\ [][ShutdownNext]_shutdownVars /\ WF_shutdownVars(ShutdownProgress)

----------------------------------------------------------------------------
(* Properties.                                                             *)

(* In a process that goes on after the stores were closed, nothing that    *)
(* uses them runs: no job run, no request, no tracked work, whoever began  *)
(* it and whenever (registerShutdownHandlers).  Excepted are the handlers  *)
(* that server.close() does not wait for, since their clients had gone,    *)
(* and the work they begin.                                                *)
NothingOutlivesStores ==
  closed /\ Alive =>
    /\ runs = {} /\ Served \subseteq orphans
    /\ orphans = {} => Running = {}

(* A shutdown ends whatever hangs.                                         *)
ShutdownEnds == shutdown = "draining" ~> closed
=============================================================================
