-------------------------------- MODULE Billing --------------------------------
(***************************************************************************)
(* Billing as a whole: the subscription, the invoices, the recurring job,  *)
(* the payments and their provider, with requests that interleave.         *)
(***************************************************************************)
EXTENDS Payments

Next ==
  \/ SubscriptionNext
  \/ InvoiceNext
  \/ PaymentNext
  \/ \E r \in Request : Crash(r)

Spec == Init /\ [][Next]_vars

\* A request in flight goes on, and the provider delivers an event again until it
\* has been acknowledged; a delivery can only start when it is taken up.
InFlight(r) == Next /\ request[r] # Idle /\ request'[r] # request[r]
Delivery(e) == e \notin acknowledged /\ \E r \in Request : ReceiveEvent(r, e)

FairSpec ==
  /\ Spec
  /\ \A r \in Request : WF_vars(InFlight(r))
  /\ \A e \in ProviderEvent : SF_vars(Delivery(e))

-------------------------------------------------------------------------------
InvoiceRow ==
  [status : InvoiceStatus \cup {"NONE"}, period : Period \cup {None},
   reissueOf : Invoice \cup {None}, age : {"CURRENT", "DUE", "LATE"}]

AttemptRow ==
  [status : PaymentStatus \cup {"NONE"}, invoice : Invoice \cup {None},
   payment : ProviderEvent \cup {None}]

Checkout == [status : PaymentStatus \cup {"NONE"}, invoice : Invoice \cup {None}]

Notice ==
  [status : PaymentStatus \cup {"NONE"}, attempt : Attempt \cup {None}, amount : Amount]

Result == {"NONE", "RECEIVED", "ACCEPTED", "REJECTED", "ERROR"}

Step ==
  {"idle", "activate", "countOutstanding", "restore", "writeActive", "markPastDue",
   "writePastDue", "sweep", "suspend", "writeSuspended", "findInvoice",
   "insertInvoice", "findOverdue", "markOverdue", "closeRun", "writeVoid",
   "insertReissue", "insertAttempt", "insertEvent", "writeAttempt", "bookPayment",
   "closeEvent", "answer", "bookManual"}

Operation ==
  {"none", "cycle", "generate", "void", "reissue", "initiate", "webhook", "manual",
   "adminSuspend", "adminRestore"}

RequestRow ==
  [at : Step, op : Operation, period : Period \cup {None}, invoice : Invoice \cup {None},
   row : PaymentKey \cup {None}, attempt : Attempt \cup {None}, result : Result,
   due : SUBSET Invoice]

RowsTypeOK ==
  /\ subscription \in SubscriptionStatus
  /\ running \in BOOLEAN
  /\ invoice \in [Invoice -> InvoiceRow]
  /\ attempt \in [Attempt -> AttemptRow]
  /\ payment \in [PaymentKey -> Invoice \cup {None}]
  /\ providerEvent \in [ProviderEvent -> Result]
  /\ checkout \in [Attempt -> Checkout]
  /\ notice \in [ProviderEvent -> Notice]
  /\ acknowledged \subseteq ProviderEvent

\* Every row, every announcement and every request in flight keeps its shape.
TypeOK == RowsTypeOK /\ request \in [Request -> RequestRow]

-------------------------------------------------------------------------------
(* What holds however requests interleave, and wherever they die.          *)

\* An invoice is PAID only on a payment on record, whatever overtakes what.
PaidIsBooked ==
  \A i \in Invoice : invoice[i].status = "PAID" => \E k \in PaymentKey : payment[k] = i

\* A payment booked from the webhook is for the invoice of a checkout that the
\* provider settled as successful, and the event named no other amount or currency:
\* no FAILED, PENDING or mismatched event ever books one, duplicated or reordered.
\* (The event may name none: the code compares what is there, where
\* BILLING_AND_SUBSCRIPTIONS.md says that both "must match the invoice exactly".)
BookedFromNotice ==
  \A e \in ProviderEvent : payment[e] # None =>
    /\ notice[e].status = "SUCCESSFUL" /\ notice[e].amount # "other"
    /\ checkout[notice[e].attempt] = [status |-> "SUCCESSFUL", invoice |-> payment[e]]

\* An event recorded as ACCEPTED that announced a success has its payment, although
\* the result is written after the transaction and the request may die in between.
AcceptedIsBooked ==
  \A e \in ProviderEvent :
    providerEvent[e] = "ACCEPTED" /\ notice[e].status = "SUCCESSFUL" => payment[e] # None

\* Unless an administrator suspends by hand, a subscription falls PAST_DUE only from
\* ACTIVE: the job writes on what it read earlier, and the unique RUNNING row keeps a
\* second run from suspending in between.
OnlyActiveFallsPastDue ==
  [][subscription # "PAST_DUE" /\ subscription' = "PAST_DUE" /\ "adminSuspend" \notin Operations
       => subscription = "ACTIVE"]_vars

-------------------------------------------------------------------------------
(* What holds when requests are served one at a time.                      *)

\* Once every invoice is paid and no request is in flight, the subscription is not
\* left PAST_DUE or SUSPENDED: the last payment has restored it.
SettledIsRestored ==
  Quiescent /\ (\A i \in Invoice : invoice[i].status \in {"NONE", "PAID"})
    => subscription \in {"PENDING", "ACTIVE"}

\* Unless the administrator does it, a subscription is suspended only while an
\* OVERDUE invoice has outlived its grace period ("not suspended on stale state").
SuspensionIsDue ==
  [][subscription # "SUSPENDED" /\ subscription' = "SUSPENDED" =>
       \/ \E r \in Request : request[r].op = "adminSuspend"
       \/ \E i \in Invoice : invoice[i].status = "OVERDUE" /\ invoice[i].age = "LATE"]_vars

\* Every success the provider announces without another amount or currency ends as a
\* payment: one that names none of them as well.
AnnouncedIsBooked ==
  \A e \in ProviderEvent :
    notice[e].status = "SUCCESSFUL" /\ notice[e].amount # "other" ~> payment[e] # None

Account == INSTANCE AccountLifecycle WITH
  standing <- subscription, bill <- [i \in Invoice |-> invoice[i].status]

\* Every statement of every handler is a step of the account or leaves it alone.
ImplementsAccount == Account!Spec

-------------------------------------------------------------------------------
(* What the documentation says and the code does not keep.                 *)

\* BILLING_AND_SUBSCRIPTIONS.md: a SUSPENDED subscription is "back to ACTIVE on
\* resolution" - by the administrator, or when nothing is overdue any more.
SuspensionLastsWhileOwing ==
  [][subscription = "SUSPENDED" /\ subscription' = "ACTIVE" =>
       \/ \E r \in Request : request[r].op = "adminRestore"
       \/ \A i \in Invoice : invoice[i].status # "OVERDUE"]_vars

\* payment-repository.ts: a DUPLICATE is "a genuine duplicate delivery of an event
\* already processed", so an acknowledged success has its payment.
AcknowledgedIsBooked ==
  \A e \in acknowledged :
    notice[e].status = "SUCCESSFUL" /\ notice[e].amount # "other" => payment[e] # None

================================================================================
