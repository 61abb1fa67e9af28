----------------------------- MODULE Subscriptions -----------------------------
(***************************************************************************)
(* subscription-repository.ts: every change of the subscription reads the  *)
(* status, checks it, and then updates the row by its tenant, whatever the *)
(* status has become in between.                                           *)
(***************************************************************************)
EXTENDS BillingData

otherRows == <<running, invoice, attempt, payment, providerEvent, provider>>

\* activateTenantSubscription, called for every new invoice: whatever is not yet
\* ACTIVE is made ACTIVE (no code makes a subscription CANCELLED).
ActivateSubscription(r) ==
  LET q == request[r] IN
  /\ q.at = "activate"
  /\ GoTo(r, IF subscription = "ACTIVE" THEN Afterwards(q) ELSE "writeActive")
  /\ UNCHANGED <<subscription, otherRows>>

\* restoreSubscriptionIfNoOutstandingInvoices, after a payment: the invoices are
\* counted first, and the subscription is read afterwards.
CountOutstanding(r) ==
  LET q == request[r] IN
  /\ q.at = "countOutstanding"
  /\ GoTo(r, IF \E i \in Invoice : invoice[i].status \in {"ISSUED", "OVERDUE"}
             THEN Afterwards(q) ELSE "restore")
  /\ UNCHANGED <<subscription, otherRows>>

\* (variant) only a suspension is lifted
RestoreSuspended(r) ==
  LET q == request[r] IN
  /\ q.at = "restore"
  /\ GoTo(r, IF subscription = "SUSPENDED" THEN "writeActive" ELSE Afterwards(q))
  /\ UNCHANGED <<subscription, otherRows>>

RestoreSubscription(r) ==
  LET q == request[r] IN
  /\ q.at = "restore"
  /\ GoTo(r, IF subscription \in {"SUSPENDED", "PAST_DUE"}
             THEN "writeActive" ELSE Afterwards(q))
  /\ UNCHANGED <<subscription, otherRows>>

WriteActive(r) ==
  /\ request[r].at = "writeActive"
  /\ subscription' = "ACTIVE"
  /\ GoTo(r, Afterwards(request[r]))
  /\ UNCHANGED otherRows

\* The job goes on to the next overdue invoice, and then to the suspensions.
NextOverdue(q) == IF q.due = {} THEN "sweep" ELSE "markOverdue"

\* markTenantPastDue, once for each invoice the job has made OVERDUE.
MarkTenantPastDue(r) ==
  LET q == request[r] IN
  /\ q.at = "markPastDue"
  /\ GoTo(r, IF subscription = "ACTIVE" THEN "writePastDue" ELSE NextOverdue(q))
  /\ UNCHANGED <<subscription, otherRows>>

WritePastDue(r) ==
  /\ request[r].at = "writePastDue"
  /\ subscription' = "PAST_DUE"
  /\ GoTo(r, NextOverdue(request[r]))
  /\ UNCHANGED otherRows

-------------------------------------------------------------------------------
\* (variant) the sweep without its search for an OVERDUE invoice
SweepOnStatus(r) ==
  LET q == request[r] IN
  /\ q.at = "sweep"
  /\ GoTo(r, IF subscription = "PAST_DUE" THEN "suspend" ELSE "closeRun")
  /\ UNCHANGED <<subscription, otherRows>>

\* evaluateAutomatedSuspensionsForAllPastDueTenants: the tenant is PAST_DUE and its
\* oldest OVERDUE invoice has outlived the grace period.
SweepSuspensions(r) ==
  LET q == request[r] IN
  /\ q.at = "sweep"
  /\ GoTo(r, IF /\ subscription = "PAST_DUE"
                /\ \E i \in Invoice : invoice[i].status = "OVERDUE" /\ invoice[i].age = "LATE"
             THEN "suspend" ELSE "closeRun")
  /\ UNCHANGED <<subscription, otherRows>>

\* suspendTenantSubscription reads the status again; a refusal fails the job run.
SuspendSubscription(r) ==
  LET q == request[r] IN
  /\ q.at = "suspend"
  /\ GoTo(r, IF subscription = "PAST_DUE" THEN "writeSuspended" ELSE "closeRun")
  /\ UNCHANGED <<subscription, otherRows>>

WriteSuspended(r) ==
  /\ request[r].at = "writeSuspended"
  /\ subscription' = "SUSPENDED"
  /\ GoTo(r, IF request[r].op = "cycle" THEN "closeRun" ELSE "idle")
  /\ UNCHANGED otherRows

\* The platform administrator's suspend and restore.
AdminSuspend(r) ==
  /\ subscription = "PAST_DUE"
  /\ Serve(r, Call("adminSuspend", "writeSuspended"))
  /\ UNCHANGED <<subscription, otherRows>>

AdminRestore(r) ==
  /\ subscription \in {"SUSPENDED", "PAST_DUE"}
  /\ Serve(r, Call("adminRestore", "writeActive"))
  /\ UNCHANGED <<subscription, otherRows>>

SubscriptionNext ==
  \E r \in Request :
    \/ ActivateSubscription(r) \/ CountOutstanding(r) \/ RestoreSubscription(r)
    \/ WriteActive(r) \/ MarkTenantPastDue(r) \/ WritePastDue(r)
    \/ SweepSuspensions(r) \/ SuspendSubscription(r) \/ WriteSuspended(r)
    \/ AdminSuspend(r) \/ AdminRestore(r)

================================================================================
