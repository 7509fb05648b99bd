---------------------------- MODULE JobLifecycle ----------------------------
(***************************************************************************)
(* What the job store promises about the row of each job, whatever the     *)
(* process does and whenever it dies: a row moves along Moves, and at most *)
(* one job per build is unsettled.  One step may move several rows, as one *)
(* call of pumpWorkers does.                                               *)
(***************************************************************************)
CONSTANTS Jobs, Build

VARIABLE life

Unsettled == {"queued", "running"}

(* A queued row is never dropped: only a running one can be interrupted,   *)
(* by a process that died with it.                                         *)
Moves ==
  {<<"absent", "queued">>, <<"absent", "running">>, <<"absent", "cached">>,
   <<"queued", "running">>, <<"queued", "failed">>,
   <<"running", "queued">>, <<"running", "done">>, <<"running", "failed">>,
   <<"running", "gone">>,
   <<"done", "gone">>, <<"cached", "gone">>, <<"failed", "gone">>}

OnePerBuild(l) ==
  \A j, k \in Jobs :
    j # k /\ Build[j] = Build[k] => ~(l[j] \in Unsettled /\ l[k] \in Unsettled)

Init == life = [j \in Jobs |-> "absent"]

Next ==
  /\ \A j \in Jobs : life'[j] = life[j] \/ <<life[j], life'[j]>> \in Moves
  /\ OnePerBuild(life')

Spec == Init /\ [][Next]_life
=============================================================================
