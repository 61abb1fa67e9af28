---------------------------- MODULE AccountLifecycle ----------------------------
(***************************************************************************)
(* What billing promises, without handlers, jobs or webhooks: an invoice   *)
(* is issued, falls overdue, and ends paid or void; the account becomes    *)
(* active with its first invoice, is warned only while something is        *)
(* overdue, and is suspended only after the warning.                       *)
(***************************************************************************)
CONSTANT Invoice

VARIABLES
  standing,   \* PENDING, ACTIVE, PAST_DUE or SUSPENDED
  bill        \* the status of each invoice, "NONE" before it is issued

vars == <<standing, bill>>

Init == standing = "PENDING" /\ bill = [i \in Invoice |-> "NONE"]

Become(i, from, to) ==
  bill[i] \in from /\ bill' = [bill EXCEPT ![i] = to] /\ UNCHANGED standing

\* Money that arrives late settles even a void invoice.
Charge(i) ==
  \/ Become(i, {"NONE"}, "ISSUED")
  \/ Become(i, {"ISSUED"}, "OVERDUE")
  \/ Become(i, {"ISSUED", "OVERDUE"}, "VOID")
  \/ Become(i, {"ISSUED", "OVERDUE", "VOID"}, "PAID")

Move(from, to) == standing \in from /\ standing' = to /\ UNCHANGED bill

Activate == Move({"PENDING"}, "ACTIVE") /\ \E i \in Invoice : bill[i] # "NONE"
Warn == Move({"ACTIVE"}, "PAST_DUE") /\ \E i \in Invoice : bill[i] = "OVERDUE"
Suspend == Move({"PAST_DUE"}, "SUSPENDED")
Lift == Move({"PAST_DUE", "SUSPENDED"}, "ACTIVE")

Next == (\E i \in Invoice : Charge(i)) \/ Activate \/ Warn \/ Suspend \/ Lift

Spec == Init /\ [][Next]_vars

================================================================================
