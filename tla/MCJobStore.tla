----------------------------- MODULE MCJobStore -----------------------------
(* Instances of JobStore for the runs: who queues what on which devices.   *)
EXTENDS JobStore

CONSTANTS a, b, c,        \* jobs
          ipad, phone,    \* devices
          app, beta,      \* builds
          alice, bob      \* owners

(* Recovery: a manual and a scheduled request for one App Store build.     *)
PairJobs      == {a, b}
OneDevice     == {ipad}
OneBuild      == {app}
PairBuild     == a :> app @@ b :> app
PairOwner     == [j \in PairJobs |-> alice]
PairPriority  == a :> 1 @@ b :> 0
PairPin       == [j \in PairJobs |-> NoDevice]
PairFirstPin  == a :> ipad @@ b :> NoDevice
PairFits      == [j \in PairJobs |-> OneDevice]
OneOwner      == {alice}
Scheduled     == {b}

(* Dispatch: three jobs of two owners on two devices, c only fits the phone *)
(* and b is pinned to the iPad.                                            *)
TrioJobs      == {a, b, c}
TwoDevices    == {ipad, phone}
TrioSeparateBuilds == [j \in TrioJobs |-> j]
TwoOwners     == {alice, bob}
TrioOwner     == a :> alice @@ b :> alice @@ c :> bob
TrioPriority  == a :> 0 @@ b :> 1 @@ c :> 0
TrioPin       == a :> NoDevice @@ b :> ipad @@ c :> NoDevice
TrioFits      == a :> TwoDevices @@ b :> TwoDevices @@ c :> {phone}
ExactlyA      == {a}
Nobody        == {}
=============================================================================
