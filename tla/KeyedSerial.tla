---------------------------- MODULE KeyedSerial ----------------------------
(***************************************************************************)
(* runKeyedSerial (packages/dkrypt/src/util/keyedSerial.ts): a chain of    *)
(* promises per key.  A call remembers the tail of its key's chain, puts   *)
(* itself at the tail, waits for the one it remembers, runs, and releases  *)
(* its gate; the entry of the key goes when the last operation ends.       *)
(*                                                                         *)
(* The tail of an operation resolves when the tail before it has and its   *)
(* own gate is open.  The gate opens when the operation has ended, and it  *)
(* ran after the tail before it, so `resolved' is `ended'.                 *)
(***************************************************************************)
EXTENDS Naturals

CONSTANTS
  Ops,   \* calls of runKeyedSerial
  Keys, KeyOf,
  None   \* no operation

ASSUME KeyAssumption  == KeyOf \in [Ops -> Keys]
ASSUME NoneAssumption == None \notin Ops

VARIABLES
  state,      \* state[o]: where the call of o is
  previous,   \* previous[o]: the operation whose tail o waits for
  keyQueues,  \* keyQueues[k]: the operation whose tail is the tail of k
  calls,      \* history: calls so far
  rank        \* history: rank[o], the number of calls before o's

serialVars == <<state, previous, keyQueues, calls, rank>>

States  == {"idle", "waiting", "running", "done"}
Pending == {o \in Ops : state[o] \in {"waiting", "running"}}

(* Each variable has its type, and chains do not cross keys.               *)
SerialTypeOK ==
  /\ state \in [Ops -> States]
  /\ previous \in [Ops -> Ops \cup {None}]
  /\ keyQueues \in [Keys -> Ops \cup {None}]
  /\ calls \in Nat
  /\ rank \in [Ops -> Nat]
  /\ \A o \in Ops : previous[o] # None => KeyOf[previous[o]] = KeyOf[o]
  /\ \A k \in Keys : keyQueues[k] # None => KeyOf[keyQueues[k]] = k

SerialInit ==
  /\ state = [o \in Ops |-> "idle"]
  /\ previous = [o \in Ops |-> None]
  /\ keyQueues = [k \in Keys |-> None]
  /\ calls = 0
  /\ rank = [o \in Ops |-> 0]

ChainTail(o) == keyQueues[KeyOf[o]]

(* Mutant: the operation enters the map before it reads the tail there.    *)
CallAfterItself(o) ==
  /\ state[o] = "idle"
  /\ state' = [state EXCEPT ![o] = "waiting"]
  /\ previous' = [previous EXCEPT ![o] = o]
  /\ keyQueues' = [keyQueues EXCEPT ![KeyOf[o]] = o]
  /\ calls' = calls + 1
  /\ rank' = [rank EXCEPT ![o] = calls]

(* Up to `await previous'.                                                 *)
Call(o) ==
  /\ state[o] = "idle"
  /\ state' = [state EXCEPT ![o] = "waiting"]
  /\ previous' = [previous EXCEPT ![o] = ChainTail(o)]
  /\ keyQueues' = [keyQueues EXCEPT ![KeyOf[o]] = o]
  /\ calls' = calls + 1
  /\ rank' = [rank EXCEPT ![o] = calls]

(* Mutant: nobody waits.                                                   *)
ResolvedAtOnce(o) == TRUE

Resolved(o) == previous[o] # None => state[previous[o]] = "done"

(* The promise it waits for is resolved: the operation starts.             *)
Begin(o) ==
  /\ state[o] = "waiting"
  /\ Resolved(o)
  /\ state' = [state EXCEPT ![o] = "running"]
  /\ UNCHANGED <<previous, keyQueues, calls, rank>>

(* The entry of the key goes if nobody has joined the chain since.         *)
WithoutTail(o) ==
  IF keyQueues[KeyOf[o]] = o THEN [keyQueues EXCEPT ![KeyOf[o]] = None] ELSE keyQueues

(* The operation returns or throws; the finally block.                     *)
End(o) ==
  /\ state[o] = "running"
  /\ state' = [state EXCEPT ![o] = "done"]
  /\ keyQueues' = WithoutTail(o)
  /\ UNCHANGED <<previous, calls, rank>>

SerialNext == \E o \in Ops : Call(o) \/ Begin(o) \/ End(o)

SerialSpec == SerialInit /\ [][SerialNext]_serialVars

(* Resolved promises continue and operations end.                          *)
SerialProgress == \E o \in Ops : Begin(o) \/ End(o)
SerialFairSpec == SerialSpec /\ WF_serialVars(SerialProgress)

----------------------------------------------------------------------------
(* Properties.                                                             *)

(* Two operations of one key never run at the same time                    *)
(* (keyedSerial.test.ts: "serializes operations by key").                  *)
Exclusive ==
  \A o, p \in Ops :
    KeyOf[o] = KeyOf[p] /\ state[o] = "running" /\ state[p] = "running" => o = p

(* The map has an entry exactly for the keys in use: no promise chain is   *)
(* lost while somebody waits on it, and none is kept for ever.             *)
EntriesAreInUse ==
  \A k \in Keys : keyQueues[k] # None <=> \E o \in Pending : KeyOf[o] = k

(* runKeyedSerial keeps its promise: SerialOrder, with the unfinished      *)
(* operations of lower rank as those called before.                        *)
Earlier(o) ==
  IF state[o] = "waiting"
  THEN {p \in Pending : KeyOf[p] = KeyOf[o] /\ rank[p] < rank[o]}
  ELSE {}
Order == INSTANCE SerialOrder WITH before <- [o \in Ops |-> Earlier(o)]
RunsInOrder == Order!Spec

(* Whoever waits for its turn gets it, also behind operations that throw.  *)
WaitingEnds == \A o \in Ops : state[o] = "waiting" ~> state[o] = "done"
=============================================================================
