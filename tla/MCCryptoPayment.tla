--------------------------- MODULE MCCryptoPayment ---------------------------
(***************************************************************************)
(* The instances of CryptoPayment that TLC checks: one user pays.  A       *)
(* behaviour has one scope: "statuses", one payment with every status;     *)
(* "faults", one that is given back, with lookups that fail and crashes;   *)
(* "overlap", one that is paid late, with pollers that overlap; "pair",    *)
(* two payments.  The scope restricts only what no fairness is about.      *)
(***************************************************************************)
EXTENDS CryptoPayment, TLC

CONSTANTS u1, p1, r1, Scopes

VARIABLE scope

SameOwner == [p \in Payments |-> u1]

(* The statuses the provider makes or delivers in a scope, and for which.  *)
Changes(p) ==
  CASE scope = "statuses" /\ p = p1 -> {"pending", "failed", "finished", "refunded"}
    [] scope = "faults" /\ p = p1   -> {"pending", "finished", "refunded"}
    [] scope = "overlap" /\ p = p1  -> {"pending", "failed", "finished"}
    [] scope = "pair" /\ p = p1     -> {"finished", "refunded"}
    [] scope = "pair" /\ p # p1     -> {"finished"}
    [] OTHER -> {}

Within ==
  /\ \A e \in (sent' \ sent) \cup (waiting' \ waiting) : e.status \in Changes(e.of)
  /\ IF scope = "faults" THEN failures' + crashes' <= 1 ELSE faults' = faults
  /\ scope # "overlap" => \A i \in Pollers \ {r1} : poll'[i] = poll[i]

MCInit == Init /\ scope \in Scopes

MCNext == Next /\ Within /\ UNCHANGED scope

MCSpec == MCInit /\ [][MCNext]_<<vars, scope>>

MCFairSpec == MCSpec /\ Fairness
==============================================================================
