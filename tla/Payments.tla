------------------------------- MODULE Payments -------------------------------
(***************************************************************************)
(* payment-repository.ts: provider checkouts, the provider's webhook, and  *)
(* manual payments; with the provider itself as its environment, which     *)
(* settles each checkout once, announces what became of it, and delivers   *)
(* an announcement again until it has been acknowledged - and perhaps once *)
(* more, and in any order.                                                 *)
(***************************************************************************)
EXTENDS Invoices

noPaymentRow == <<subscription, running>>
billingRows == <<subscription, running, invoice, attempt, payment, providerEvent>>

Payable(i) == invoice[i].status \in {"ISSUED", "OVERDUE"}

-------------------------------------------------------------------------------
(* The provider.                                                           *)

SettleCheckout(a) ==
  /\ checkout[a].status = "PENDING"
  /\ \E s \in {"SUCCESSFUL", "FAILED"} : checkout' = [checkout EXCEPT ![a].status = s]
  /\ UNCHANGED <<tenantRows, notice, acknowledged, request>>

\* At most one event for each status of a checkout; it may name no amount or no
\* currency and, for a misconfigured checkout, others.  (An event without a status is
\* handled as a PENDING one; one without a reference is an ERROR that touches nothing.)
Announce(e) ==
  /\ notice[e] = NoNotice
  /\ \E a \in Attempt, amount \in Amount :
       /\ checkout[a] # NoCheckout
       /\ \A f \in ProviderEvent :
            <<notice[f].attempt, notice[f].status>> # <<a, checkout[a].status>>
       /\ notice' = [notice EXCEPT ![e] = [status |-> checkout[a].status,
                                           attempt |-> a, amount |-> amount]]
  /\ UNCHANGED <<tenantRows, checkout, acknowledged, request>>

-------------------------------------------------------------------------------
\* initiateProviderPayment: the checkout exists at the provider before the attempt
\* that refers to it exists here.
InitiatePayment(r) ==
  \E i \in Invoice, a \in Attempt :
    /\ Payable(i)
    /\ checkout[a] = NoCheckout
    /\ Serve(r, [Call("initiate", "insertAttempt") EXCEPT !.invoice = i, !.attempt = a])
    /\ checkout' = [checkout EXCEPT ![a] = [status |-> "PENDING", invoice |-> i]]
    /\ UNCHANGED <<billingRows, notice, acknowledged>>

InsertAttempt(r) ==
  LET q == request[r] IN
  /\ q.at = "insertAttempt"
  /\ attempt' = [attempt EXCEPT ![q.attempt] =
                   [NoAttempt EXCEPT !.status = "PENDING", !.invoice = q.invoice]]
  /\ GoTo(r, "idle")
  /\ UNCHANGED <<subscription, running, invoice, payment, providerEvent, provider>>

-------------------------------------------------------------------------------
\* processPaymentProviderEvent, the reads: a delivery of an event that has a row is
\* a DUPLICATE and answered at once; the others look for the attempt.
ReceiveEvent(r, e) ==
  LET a == notice[e].attempt
      found == IF attempt[a] = NoAttempt THEN None ELSE a
      first == providerEvent[e] = "NONE" IN
  /\ notice[e] # NoNotice
  /\ Serve(r, [Call("webhook", IF first THEN "insertEvent" ELSE "answer")
                 EXCEPT !.row = e, !.attempt = IF first THEN found ELSE None])
  /\ UNCHANGED <<tenantRows, provider>>

\* What the checks after the insert will say of an event: none of them reads a row
\* that may still change.  Amount and currency are compared only when they are there.
Verdict(q) ==
  CASE q.attempt = None -> "ERROR"
    [] q.attempt # None /\ notice[q.row].amount = "other" -> "REJECTED"
    [] q.attempt # None /\ notice[q.row].amount # "other" -> "ACCEPTED"

\* (variant) the row is inserted with its verdict instead of being closed at the end
InsertEventWithVerdict(r) ==
  LET q == request[r] IN
  /\ q.at = "insertEvent"
  /\ IF providerEvent[q.row] = "NONE"
     THEN /\ providerEvent' = [providerEvent EXCEPT ![q.row] = Verdict(q)]
          /\ request' = [request EXCEPT
               ![r].result = Verdict(q),
               ![r].at = IF Verdict(q) = "ACCEPTED" THEN "writeAttempt" ELSE "closeEvent"]
     ELSE GoTo(r, "idle") /\ UNCHANGED providerEvent
  /\ UNCHANGED <<subscription, running, invoice, attempt, payment, provider>>

\* The unique index on the event throws for the second of two deliveries, which the
\* provider sees as a failure.
InsertEvent(r) ==
  LET q == request[r] IN
  /\ q.at = "insertEvent"
  /\ IF providerEvent[q.row] = "NONE"
     THEN /\ providerEvent' = [providerEvent EXCEPT ![q.row] = "RECEIVED"]
          /\ request' = [request EXCEPT
               ![r].result = Verdict(q),
               ![r].at = IF Verdict(q) = "ACCEPTED" THEN "writeAttempt" ELSE "closeEvent"]
     ELSE GoTo(r, "idle") /\ UNCHANGED providerEvent
  /\ UNCHANGED <<subscription, running, invoice, attempt, payment, provider>>

\* (variant) every status of an accepted event books a payment
WriteAttemptAndBook(r) ==
  LET q == request[r] IN
  /\ q.at = "writeAttempt"
  /\ attempt' = [attempt EXCEPT ![q.attempt].status = notice[q.row].status]
  /\ GoTo(r, "bookPayment")
  /\ UNCHANGED <<subscription, running, invoice, payment, providerEvent, provider>>

\* (variant) the attempt takes the verdict on the event for its status
WriteAttemptResult(r) ==
  LET q == request[r] IN
  /\ q.at = "writeAttempt"
  /\ attempt' = [attempt EXCEPT ![q.attempt].status = q.result]
  /\ GoTo(r, IF notice[q.row].status = "SUCCESSFUL" THEN "bookPayment" ELSE "closeEvent")
  /\ UNCHANGED <<subscription, running, invoice, payment, providerEvent, provider>>

\* (variant) a success for an invoice that is not payable any more is dropped
WriteAttemptIfPayable(r) ==
  LET q == request[r] IN
  /\ q.at = "writeAttempt"
  /\ attempt' = [attempt EXCEPT ![q.attempt].status = notice[q.row].status]
  /\ GoTo(r, IF notice[q.row].status = "SUCCESSFUL" /\ Payable(attempt[q.attempt].invoice)
             THEN "bookPayment" ELSE "closeEvent")
  /\ UNCHANGED <<subscription, running, invoice, payment, providerEvent, provider>>

\* The attempt takes the status of the event, whatever an earlier event made of it.
WriteAttempt(r) ==
  LET q == request[r]
      status == notice[q.row].status IN
  /\ q.at = "writeAttempt"
  /\ attempt' = [attempt EXCEPT ![q.attempt].status = status]
  /\ GoTo(r, IF status = "SUCCESSFUL" THEN "bookPayment" ELSE "closeEvent")
  /\ UNCHANGED <<subscription, running, invoice, payment, providerEvent, provider>>

\* (variant) the payment is booked on the invoice of the request, which has none
BookPaymentOfRequest(r) ==
  LET q == request[r]
      i == attempt[q.attempt].invoice IN
  /\ q.at = "bookPayment"
  /\ payment' = [payment EXCEPT ![q.row] = q.invoice]
  /\ invoice' = [invoice EXCEPT ![i].status = "PAID"]
  /\ attempt' = [attempt EXCEPT ![q.attempt].status = "SUCCESSFUL",
                                ![q.attempt].payment = q.row]
  /\ GoTo(r, "closeEvent")
  /\ UNCHANGED <<subscription, running, providerEvent, provider>>

\* The transaction: the payment, the PAID invoice and the resolved attempt.
BookPayment(r) ==
  LET q == request[r]
      i == attempt[q.attempt].invoice IN
  /\ q.at = "bookPayment"
  /\ payment' = [payment EXCEPT ![q.row] = i]
  /\ invoice' = [invoice EXCEPT ![i].status = "PAID"]
  /\ attempt' = [attempt EXCEPT ![q.attempt].status = "SUCCESSFUL",
                                ![q.attempt].payment = q.row]
  /\ GoTo(r, "closeEvent")
  /\ UNCHANGED <<subscription, running, providerEvent, provider>>

CloseEvent(r) ==
  LET q == request[r] IN
  /\ q.at = "closeEvent"
  /\ providerEvent' = [providerEvent EXCEPT ![q.row] = q.result]
  /\ GoTo(r, IF q.result = "ACCEPTED" /\ notice[q.row].status = "SUCCESSFUL"
             THEN "countOutstanding" ELSE "answer")
  /\ UNCHANGED <<subscription, running, invoice, attempt, payment, provider>>

\* Whatever the outcome, the route answers 200.
Answer(r) ==
  /\ request[r].at = "answer"
  /\ acknowledged' = acknowledged \cup {request[r].row}
  /\ GoTo(r, "idle")
  /\ UNCHANGED <<tenantRows, checkout, notice>>

-------------------------------------------------------------------------------
\* recordManualPayment, its check and its transaction, which draws a new key.  Once
\* the set Proof, the bound of manual payments, is used up, the insert fails.
RecordManualPayment(r) ==
  /\ \E i \in Invoice :
       Payable(i) /\ Serve(r, [Call("manual", "bookManual") EXCEPT !.invoice = i])
  /\ UNCHANGED <<tenantRows, provider>>

BookManual(r) ==
  LET i == request[r].invoice
      unused == {k \in Proof : payment[k] = None} IN
  /\ request[r].at = "bookManual"
  /\ \/ /\ \E k \in unused : payment' = [payment EXCEPT ![k] = i]
        /\ invoice' = [invoice EXCEPT ![i].status = "PAID"]
        /\ GoTo(r, "countOutstanding")
     \/ /\ unused = {}
        /\ GoTo(r, "idle")
        /\ UNCHANGED <<invoice, payment>>
  /\ UNCHANGED <<subscription, running, attempt, providerEvent, provider>>

PaymentNext ==
  \/ \E a \in Attempt : SettleCheckout(a)
  \/ \E e \in ProviderEvent : Announce(e)
  \/ \E r \in Request :
       \/ InitiatePayment(r) \/ InsertAttempt(r)
       \/ (\E e \in ProviderEvent : ReceiveEvent(r, e)) \/ InsertEvent(r) \/ WriteAttempt(r) \/ BookPayment(r)
       \/ CloseEvent(r) \/ Answer(r)
       \/ RecordManualPayment(r) \/ BookManual(r)

================================================================================
