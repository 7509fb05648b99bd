---------------------------- MODULE SerialOrder ----------------------------
(***************************************************************************)
(* What runKeyedSerial (packages/dkrypt/src/util/keyedSerial.ts) promises: *)
(* the operations of one key run one at a time and in the order in which   *)
(* they were called; operations of different keys do not wait for one      *)
(* another.                                                                *)
(***************************************************************************)
CONSTANTS Ops, KeyOf

VARIABLES
  state,   \* state[o]: where the call of o is
  before   \* before[o]: the unfinished operations of its key called earlier

vars == <<state, before>>

States == {"idle", "waiting", "running", "done"}
Unfinished(key) == {o \in Ops : KeyOf[o] = key /\ state[o] \in {"waiting", "running"}}

Init ==
  /\ state = [o \in Ops |-> "idle"]
  /\ before = [o \in Ops |-> {}]

(* The operation is called.                                                *)
Call(o) ==
  /\ state[o] = "idle"
  /\ state' = [state EXCEPT ![o] = "waiting"]
  /\ before' = [before EXCEPT ![o] = Unfinished(KeyOf[o])]

(* Everything called before it has ended: it starts.                       *)
Begin(o) ==
  /\ state[o] = "waiting"
  /\ before[o] = {}
  /\ state' = [state EXCEPT ![o] = "running"]
  /\ UNCHANGED before

(* It returns or throws.                                                   *)
End(o) ==
  /\ state[o] = "running"
  /\ state' = [state EXCEPT ![o] = "done"]
  /\ before' = [p \in Ops |-> before[p] \ {o}]

Next == \E o \in Ops : Call(o) \/ Begin(o) \/ End(o)

Spec == Init /\ [][Next]_vars
=============================================================================
