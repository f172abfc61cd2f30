--------------------------- MODULE DeliveryLedger ---------------------------
(***************************************************************************)
(* What the delivery ledger promises: a delivery is queued at most once,   *)
(* tried, and then either delivered or, after all its tries, given up; an  *)
(* outcome is final, and a removed delivery never comes back.  Late        *)
(* deliveries, still pending when they become late, are the exception:     *)
(* any outcome of theirs may be revised.  Several deliveries may move in   *)
(* one step.                                                               *)
(***************************************************************************)
EXTENDS Naturals

CONSTANTS Delivery, MaxAttempts

VARIABLES phase, tries, late

Init ==
  /\ phase = [d \in Delivery |-> "none"]
  /\ tries = [d \in Delivery |-> 0]
  /\ late = {}

Queue(d)   == phase[d] = "none" /\ phase'[d] = "pending" /\ tries'[d] = 0
Try(d)     == phase[d] = "pending" /\ phase'[d] = "pending" /\ tries'[d] = tries[d] + 1
Deliver(d) == phase[d] = "pending" /\ phase'[d] = "delivered" /\ tries[d] > 0 /\ tries'[d] = tries[d]
GiveUp(d)  == phase[d] = "pending" /\ phase'[d] = "dead" /\ tries[d] >= MaxAttempts /\ tries'[d] = tries[d]
Remove(d)  == phase'[d] = "gone"
Rest(d)    == phase'[d] = phase[d] /\ tries'[d] = tries[d]

\* Not even a late delivery is given up before its tries are spent.
Revise(d) ==
  /\ d \in late /\ {phase[d], phase'[d]} \subseteq {"pending", "delivered", "dead"}
  /\ tries[d] > 0 /\ tries'[d] = tries[d]
  /\ phase'[d] = "dead" => tries[d] >= MaxAttempts

Next ==
  /\ late \subseteq late' /\ \A d \in late' \ late : d \in Delivery /\ phase[d] \in {"pending", "gone"}
  /\ \A d \in Delivery :
       Queue(d) \/ Try(d) \/ Deliver(d) \/ GiveUp(d) \/ Remove(d) \/ Rest(d) \/ Revise(d)

Spec == Init /\ [][Next]_<<phase, tries, late>>
=============================================================================
