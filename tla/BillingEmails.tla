----------------------------- MODULE BillingEmails -----------------------------
(***************************************************************************)
(* billing-email-repository.ts: the e-mail that follows a payment, once    *)
(* per payment and invoice by a unique index, and the resends that people  *)
(* ask for, to which the index does not apply.                             *)
(***************************************************************************)
EXTENDS OperationsData, Sequences

CONSTANTS
  Payment,   \* payments that succeeded, each of one invoice
  Contact    \* active billing contacts of the company

ASSUME ContactAssumption == None \notin Contact

VARIABLES
  followUp,   \* of each payment, the delivery that followed it
  resend,     \* of each contact, a delivery somebody asked for
  mailed      \* of each payment, the contacts the provider was given its e-mail for

emailVars == <<followUp, resend, mailed>>

NoDelivery == [status |-> "NONE", to |-> None]

EmailInit ==
  /\ followUp = [p \in Payment |-> NoDelivery]
  /\ resend = [c \in Contact |-> "NONE"]
  /\ mailed = [p \in Payment |-> << >>]

\* sendInvoiceEmailForPayment: called by whoever learns that the payment succeeded, a
\* repeated webhook included; nothing without a contact.
SendInvoiceEmail(r) ==
  \E p \in Payment :
    /\ Contact # {}
    /\ Begin(r, [at |-> "nextContact", payment |-> p, todo |-> Contact, to |-> None])
    /\ UNCHANGED emailVars

\* (variant) only a delivery that was sent stops the next one
NotSentYet(p) == followUp[p].status # "SENT"

\* billing_email_deliveries_one_per_invoice_payment_event
NoFollowUp(p) == followUp[p] = NoDelivery

InsertDelivery(r) ==
  LET q == call[r] IN
  /\ At(r, "nextContact")
  /\ \E c \in q.todo :
       IF NoFollowUp(q.payment)
       THEN /\ followUp' = [followUp EXCEPT ![q.payment] = [status |-> "PENDING", to |-> c]]
            /\ call' = [call EXCEPT ![r] =
                 [at |-> "handOver", payment |-> q.payment, todo |-> q.todo \ {c}, to |-> c]]
       ELSE /\ call' = [call EXCEPT ![r].todo = @ \ {c}]
            /\ UNCHANGED followUp
  /\ UNCHANGED <<resend, mailed>>

HandOver(r) ==
  LET q == call[r] IN
  /\ At(r, "handOver")
  /\ mailed' = [mailed EXCEPT ![q.payment] = Append(@, q.to)]
  /\ \E status \in {"SENT", "FAILED"} : Go(r, status)
  /\ UNCHANGED <<followUp, resend>>

RecordDelivery(r) ==
  LET q == call[r] IN
  /\ q.at \in {"SENT", "FAILED"}
  /\ followUp' = [followUp EXCEPT ![q.payment].status = q.at]
  /\ Go(r, "nextContact")
  /\ UNCHANGED <<resend, mailed>>

NoContactLeft(r) ==
  /\ At(r, "nextContact") /\ call[r].todo = {}
  /\ End(r)
  /\ UNCHANGED emailVars

\* resendInvoiceEmail: always a new row, of no payment.
ResendInvoiceEmail(r) ==
  \E c \in Contact :
    /\ resend[c] = "NONE"
    /\ Begin(r, [at |-> "recordResend", to |-> c])
    /\ resend' = [resend EXCEPT ![c] = "PENDING"]
    /\ UNCHANGED <<followUp, mailed>>

RecordResend(r) ==
  /\ At(r, "recordResend")
  /\ \E status \in {"SENT", "FAILED"} : resend' = [resend EXCEPT ![call[r].to] = status]
  /\ End(r)
  /\ UNCHANGED <<followUp, mailed>>

EmailServes(r) ==
  \/ SendInvoiceEmail(r) \/ InsertDelivery(r) \/ HandOver(r) \/ RecordDelivery(r)
  \/ NoContactLeft(r) \/ ResendInvoiceEmail(r) \/ RecordResend(r)

EmailNext ==
  /\ \E r \in Request : EmailServes(r) \/ (Die(r) /\ UNCHANGED emailVars)
  /\ UNCHANGED mode

EmailSpec == NoCalls /\ EmailInit /\ [][EmailNext]_<<mode, call, emailVars>>

-------------------------------------------------------------------------------
DeliveryStatus == {"NONE", "PENDING", "SENT", "FAILED"}

EmailTypeOK ==
  /\ followUp \in [Payment -> [status : DeliveryStatus, to : Contact \cup {None}]]
  /\ resend \in [Contact -> DeliveryStatus]
  /\ mailed \in [Payment -> Seq(Contact)]

\* However often a payment is reported, by several processes at once or after one died
\* before it recorded what it had sent, its e-mail goes out at most once, and to nobody
\* but the recipient of the delivery on record.  With several contacts one of them gets
\* it: the index that keeps a repeated report out knows no recipient.
OneEmailPerPayment == \A p \in Payment : mailed[p] \in {<< >>, <<followUp[p].to>>}

================================================================================
