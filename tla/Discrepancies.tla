----------------------------- MODULE Discrepancies -----------------------------
(***************************************************************************)
(* reconciliation-repository.ts, resolveDiscrepancy: people resolve the    *)
(* discrepancies of one reconciliation, whose status is derived from a     *)
(* count after each of them.                                               *)
(***************************************************************************)
EXTENDS OperationsData

CONSTANTS Discrepancy   \* what the comparison of the two legs found

ASSUME FoundAssumption == Discrepancy # {}

VARIABLES
  open,        \* discrepancies that are not RESOLVED
  reconciled   \* status of the reconciliation

discrepancyVars == <<open, reconciled>>

\* A reconciliation that found something is created OPEN.
DiscrepancyInit == open = Discrepancy /\ reconciled = "OPEN"

ResolveDiscrepancy(r) ==
  \E d \in open :
    /\ Begin(r, [at |-> "writeResolved", row |-> d])
    /\ UNCHANGED discrepancyVars

WriteResolved(r) ==
  /\ At(r, "writeResolved")
  /\ open' = open \ {call[r].row}
  /\ Go(r, "countOpen")
  /\ UNCHANGED reconciled

\* (variant) the count was taken before the update of the discrepancy itself
CountedBefore(r) == IF open \cup {call[r].row} = {} THEN "RESOLVED" ELSE "OPEN"

Derived(r) == IF open = {} THEN "RESOLVED" ELSE "OPEN"

CountOpen(r) ==
  /\ At(r, "countOpen")
  /\ call' = [call EXCEPT ![r] = [at |-> "writeReconciled", to |-> Derived(r)]]
  /\ UNCHANGED discrepancyVars

WriteReconciled(r) ==
  /\ At(r, "writeReconciled")
  /\ reconciled' = call[r].to
  /\ End(r)
  /\ UNCHANGED open

DiscrepancyServes(r) ==
  ResolveDiscrepancy(r) \/ WriteResolved(r) \/ CountOpen(r) \/ WriteReconciled(r)

DiscrepancyNext ==
  /\ \E r \in Request : DiscrepancyServes(r) \/ (Die(r) /\ UNCHANGED discrepancyVars)
  /\ UNCHANGED mode

DiscrepancySpec ==
  NoCalls /\ DiscrepancyInit /\ [][DiscrepancyNext]_<<mode, call, discrepancyVars>>

-------------------------------------------------------------------------------
DiscrepancyTypeOK == open \subseteq Discrepancy /\ reconciled \in {"OPEN", "RESOLVED"}

\* A reconciliation is RESOLVED only when all its discrepancies are, however the
\* counts and the updates of several people cross; and one at a time, the last
\* resolution closes it.
StatusFollowsDiscrepancies ==
  /\ reconciled = "RESOLVED" => open = {}
  /\ mode.serial /\ ~mode.faults /\ Quiescent /\ open = {} => reconciled = "RESOLVED"

================================================================================
