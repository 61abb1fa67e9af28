------------------------------ MODULE BillingData ------------------------------
(***************************************************************************)
(* The billing tables of one tenant, the payment provider, and the         *)
(* requests being served (tenants share only the sequence of invoice       *)
(* numbers and the lock of the recurring job).  As in the gate workflow a  *)
(* request is a chain of statements; only a Prisma $transaction makes      *)
(* several of them one step.                                               *)
(***************************************************************************)
EXTENDS Naturals, FiniteSets

CONSTANTS
  Period, Invoice, Attempt,   \* billing periods, invoices, payment attempts
  ProviderEvent,              \* event identifiers of the provider
  Proof,                      \* manual payments, by their idempotency key
  Request, None,
  Serial,                     \* TRUE: a request starts only when none is in flight
  MayCrash,                   \* TRUE: a request may die between two statements
  Operations                  \* the handlers that are called

ASSUME NoRow == None \notin UNION {Period, Invoice, Attempt, ProviderEvent, Proof}
\* The keys of the webhook and those of manual payments carry different prefixes.
ASSUME DistinctKeys == ProviderEvent \cap Proof = {}
ASSUME Switches == {Serial, MayCrash} \subseteq BOOLEAN

VARIABLES
  subscription,    \* the status of the tenant's subscription
  running,         \* TRUE: a JobRun row of the recurring job is RUNNING
  invoice,         \* the invoices
  attempt,         \* the payment attempts
  payment,         \* for each idempotency key the invoice its payment is for
  providerEvent,   \* for each event identifier the processing result of its row
  checkout,        \* at the provider: what became of each checkout session
  notice,          \* at the provider: what each event announces
  acknowledged,    \* at the provider: the events answered with success
  request          \* the requests in flight

tenantRows == <<subscription, running, invoice, attempt, payment, providerEvent>>
provider == <<checkout, notice, acknowledged>>
vars == <<tenantRows, provider, request>>

-------------------------------------------------------------------------------
PaymentKey == ProviderEvent \cup Proof
PaymentStatus == {"PENDING", "SUCCESSFUL", "FAILED"}
InvoiceStatus == {"ISSUED", "PAID", "OVERDUE", "VOID"}
SubscriptionStatus == {"PENDING", "ACTIVE", "PAST_DUE", "SUSPENDED"}

\* What an event says of the money, against the invoice: its amount and currency, as
\* far as it names them, are the invoice's ("exact" when it names both), or one of
\* them is another.
Amount == {"exact", "absent", "other"}

\* age is what the clock says of the due date: not reached, passed, or passed by
\* more than the tenant's grace period.
NoInvoice == [status |-> "NONE", period |-> None, reissueOf |-> None, age |-> "CURRENT"]
NoAttempt == [status |-> "NONE", invoice |-> None, payment |-> None]
NoCheckout == [status |-> "NONE", invoice |-> None]
NoNotice == [status |-> "NONE", attempt |-> None, amount |-> "absent"]

Idle == [at |-> "idle", op |-> "none", period |-> None, invoice |-> None,
         row |-> None, attempt |-> None, result |-> "NONE", due |-> {}]

Init ==
  /\ subscription = "PENDING"
  /\ running = FALSE
  /\ invoice = [i \in Invoice |-> NoInvoice]
  /\ attempt = [a \in Attempt |-> NoAttempt]
  /\ payment = [k \in PaymentKey |-> None]
  /\ providerEvent = [e \in ProviderEvent |-> "NONE"]
  /\ checkout = [a \in Attempt |-> NoCheckout]
  /\ notice = [e \in ProviderEvent |-> NoNotice]
  /\ acknowledged = {}
  /\ request = [r \in Request |-> Idle]

-------------------------------------------------------------------------------
Quiescent == \A r \in Request : request[r] = Idle

Call(op, at) == [Idle EXCEPT !.op = op, !.at = at]

Serve(r, call) ==
  /\ request[r] = Idle
  /\ call.op \in Operations
  /\ Serial => Quiescent
  /\ request' = [request EXCEPT ![r] = call]

GoTo(r, at) ==
  request' = [request EXCEPT ![r] = IF at = "idle" THEN Idle ELSE [@ EXCEPT !.at = at]]

\* A dying request leaves its rows, the RUNNING row of the job included.
Crash(r) ==
  /\ MayCrash
  /\ request[r] # Idle
  /\ GoTo(r, "idle")
  /\ UNCHANGED <<tenantRows, provider>>

\* Where a request goes on once the subscription is settled.
Afterwards(q) ==
  CASE q.op = "cycle" -> "findOverdue"
    [] q.op = "webhook" -> "answer"
    [] OTHER -> "idle"

================================================================================
