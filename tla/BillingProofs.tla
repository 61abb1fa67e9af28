----------------------------- MODULE BillingProofs -----------------------------
(***************************************************************************)
(* The invariants of billing that hold however requests interleave and     *)
(* wherever they die, for any number of invoices, payments and requests:   *)
(* each follows from Inductive, which holds initially and which every      *)
(* statement of every handler preserves.                                   *)
(***************************************************************************)
EXTENDS Billing, TLAPS

-------------------------------------------------------------------------------
(* Why: rows and announcements never lose what a request has read of them  *)
(* (Keeps), a request carries what its next statement relies on (Sound),   *)
(* and a run of the recurring job is alone (OneRun).                       *)

\* What the tables and the provider say of one another.
RowsSound ==
  /\ \A a \in Attempt : checkout[a] # NoCheckout =>
       checkout[a].status \in PaymentStatus /\ checkout[a].invoice \in Invoice
  /\ \A e \in ProviderEvent : notice[e] # NoNotice =>
       /\ notice[e].status \in PaymentStatus
       /\ notice[e].attempt \in Attempt
       /\ checkout[notice[e].attempt] # NoCheckout
       /\ notice[e].status # "PENDING" => checkout[notice[e].attempt].status = notice[e].status
  /\ \A e \in ProviderEvent : providerEvent[e] # "NONE" => notice[e] # NoNotice
  /\ \A a \in Attempt : attempt[a] # NoAttempt =>
       checkout[a] # NoCheckout /\ attempt[a].invoice = checkout[a].invoice

\* What a webhook request knows of its event at each of its statements.
WebhookSound(q) ==
  /\ q.at \in {"insertEvent", "writeAttempt", "bookPayment", "closeEvent", "answer"} =>
       q.op = "webhook"
  /\ q.op = "webhook" =>
       /\ q.row \in ProviderEvent /\ notice[q.row] # NoNotice
       /\ q.attempt # None => q.attempt = notice[q.row].attempt /\ attempt[q.attempt] # NoAttempt
  /\ q.at \in {"writeAttempt", "bookPayment", "closeEvent"} => q.result = Verdict(q)
  /\ q.at \in {"writeAttempt", "bookPayment"} => q.result = "ACCEPTED"
  /\ q.at = "bookPayment" => notice[q.row].status = "SUCCESSFUL"
  /\ q.at = "closeEvent" /\ q.result = "ACCEPTED" /\ notice[q.row].status = "SUCCESSFUL" =>
       payment[q.row] # None

Sound(q) ==
  /\ WebhookSound(q)
  /\ q.at = "insertAttempt" =>
       q.attempt \in Attempt /\ q.invoice \in Invoice /\ checkout[q.attempt].invoice = q.invoice
  /\ q.at \in {"bookManual", "writeVoid", "insertReissue"} => q.invoice \in Invoice
  /\ q.at \in {"findInvoice", "insertInvoice"} => q.period \in Period

Safe == PaidIsBooked /\ BookedFromNotice /\ AcceptedIsBooked

Inductive ==
  /\ TypeOK /\ RowsSound /\ Safe
  /\ \A r \in Request : Sound(request[r])

\* What no step takes away.
Keeps ==
  /\ \A a \in Attempt : checkout[a] # NoCheckout =>
       /\ checkout'[a] # NoCheckout /\ checkout'[a].invoice = checkout[a].invoice
       /\ checkout[a].status # "PENDING" => checkout'[a].status = checkout[a].status
  /\ \A e \in ProviderEvent : notice[e] # NoNotice => notice'[e] = notice[e]
  /\ \A a \in Attempt : attempt[a] # NoAttempt =>
       attempt'[a] # NoAttempt /\ attempt'[a].invoice = attempt[a].invoice
  /\ \A k \in PaymentKey : payment[k] # None => payment'[k] # None

-------------------------------------------------------------------------------
(* The recurring job.                                                      *)

RunStep ==
  {"findInvoice", "findOverdue", "markOverdue", "markPastDue", "writePastDue",
   "sweep", "suspend", "closeRun"}

InRun(r) == request[r].op = "cycle"

\* The RUNNING row keeps a second run out; and unless an administrator suspends by
\* hand, nothing but the run makes the subscription PAST_DUE or SUSPENDED.
OneRun ==
  /\ \A r \in Request : InRun(r) => running
  /\ \A r, s \in Request : InRun(r) /\ InRun(s) => r = s
  /\ \A r \in Request :
       /\ request[r].at \in RunStep => InRun(r)
       /\ request[r].op \in Operations \cup {"none"}
       /\ request[r].at = "writeSuspended" => InRun(r) \/ request[r].op = "adminSuspend"
       /\ request[r].at = "writePastDue" /\ "adminSuspend" \notin Operations =>
            subscription = "ACTIVE"

-------------------------------------------------------------------------------
(* Requests served one at a time.  What a request has read is still so when *)
(* it writes: only the clock and the provider move under it.               *)

Alone == \A r, s \in Request : request[r] # Idle /\ request[s] # Idle => r = s

Timely(q) ==
  /\ q.at = "activate" \/ (q.at = "writeActive" /\ subscription = "PENDING") =>
       \E i \in Invoice : invoice[i].status # "NONE"
  /\ q.at \in {"markPastDue", "writePastDue"} => \E i \in Invoice : invoice[i].status = "OVERDUE"
  /\ q.at = "writePastDue" => subscription = "ACTIVE"
  /\ q.at \in {"markOverdue", "markPastDue", "writePastDue"} =>
       \A i \in q.due : invoice[i].status = "ISSUED"
  /\ q.at \in {"suspend", "writeSuspended"} =>
       /\ subscription = "PAST_DUE"
       /\ q.op # "adminSuspend" =>
            \E i \in Invoice : invoice[i].status = "OVERDUE" /\ invoice[i].age = "LATE"
  /\ q.at \in {"writeVoid", "bookManual"} => Payable(q.invoice)

OneAtATime ==
  /\ Alone
  /\ \A a \in Attempt : checkout[a] # NoCheckout => invoice[checkout[a].invoice].status # "NONE"
  /\ \A r \in Request : Timely(request[r])

\* Between the payment of the last invoice and the write of ACTIVE, the request that
\* took the payment is on its way to that write.
Restores(q) ==
  \/ q.at \in {"countOutstanding", "restore", "writeActive"}
  \/ q.at = "closeEvent" /\ q.result = "ACCEPTED" /\ notice[q.row].status = "SUCCESSFUL"

Settled == \A i \in Invoice : invoice[i].status \in {"NONE", "PAID"}

RestoredInTime ==
  Settled /\ subscription \notin {"PENDING", "ACTIVE"} => \E r \in Request : Restores(request[r])

-------------------------------------------------------------------------------
(* The frame of every step.                                                *)

\* What a request relies on is not taken away from it.
LEMMA SoundKept ==
  ASSUME Keeps, NEW q \in RequestRow, Sound(q)
  PROVE  Sound(q)'
  <1>1. q.op = "webhook" => notice'[q.row] = notice[q.row]
    BY DEF Sound, WebhookSound, Keeps
  <1>2. q.op = "webhook" /\ q.attempt # None => attempt'[q.attempt] # NoAttempt
    BY DEF Sound, WebhookSound, Keeps, RequestRow
  <1>3. q.op = "webhook" /\ payment[q.row] # None => payment'[q.row] # None
    BY DEF Sound, WebhookSound, Keeps, PaymentKey
  <1>4. WebhookSound(q)'
    BY <1>1, <1>2, <1>3 DEF Sound, WebhookSound, Verdict
  <1>5. q.at = "insertAttempt" => checkout'[q.attempt].invoice = q.invoice
    BY NoRow DEF Sound, Keeps, NoCheckout
  <1> QED BY <1>4, <1>5 DEF Sound

\* The rows keep what was read of them, and request r goes on as call.
LEMMA Written ==
  ASSUME Inductive, Keeps, RowsTypeOK', RowsSound', Safe',
         NEW r \in Request, NEW call \in RequestRow, Sound(call)',
         request' = [request EXCEPT ![r] = call]
  PROVE  Inductive'
  <1>1. ASSUME NEW s \in Request PROVE Sound(request[s])'
    <2>1. CASE s = r
      <3>1. request'[s] = call
        BY <2>1 DEF Inductive, TypeOK
      <3> QED BY <3>1 DEF Sound, WebhookSound, Verdict
    <2>2. CASE s # r
      <3>1. PICK q : q = request[s]
        OBVIOUS
      <3>2. q \in RequestRow /\ Sound(q)
        BY <3>1 DEF Inductive, TypeOK
      <3>3. request'[s] = q
        BY <2>2, <3>1 DEF Inductive, TypeOK
      <3>4. Sound(q)'
        BY <3>2, SoundKept
      <3> QED BY <3>3, <3>4 DEF Sound, WebhookSound, Verdict
    <2> QED BY <2>1, <2>2
  <1>2. TypeOK'
    BY DEF Inductive, TypeOK
  <1> QED BY <1>1, <1>2 DEF Inductive

\* A step that leaves the rows and the provider alone keeps all that is said of them.
LEMMA Still ==
  ASSUME Inductive, UNCHANGED <<tenantRows, provider>>
  PROVE  Keeps /\ RowsTypeOK' /\ RowsSound' /\ Safe'
  <1> USE DEF Inductive, tenantRows, provider
  <1>1. Keeps
    BY DEF Keeps
  <1>2. RowsTypeOK'
    BY DEF TypeOK, RowsTypeOK
  <1>3. RowsSound'
    BY DEF RowsSound
  <1>4. Safe'
    BY DEF Safe, PaidIsBooked, BookedFromNotice, AcceptedIsBooked
  <1> QED BY <1>1, <1>2, <1>3, <1>4

\* An ended request relies on nothing.
LEMMA IdleSound == Idle \in RequestRow /\ Sound(Idle) /\ Sound(Idle)'
  BY DEF Idle, RequestRow, Step, Operation, Result, Sound, WebhookSound

\* A handler starts: it has only read.
LEMMA Served ==
  ASSUME Inductive, UNCHANGED <<tenantRows, provider>>,
         NEW r \in Request, NEW call \in RequestRow, Sound(call), Serve(r, call)
  PROVE  Inductive'
  <1>1. Sound(call)'
    BY Still, SoundKept
  <1> QED BY <1>1, Still, Written DEF Serve

\* The requests do not move.
LEMMA Unasked ==
  ASSUME Inductive, Keeps, RowsTypeOK', RowsSound', Safe', UNCHANGED request
  PROVE  Inductive'
  <1>1. ASSUME NEW s \in Request PROVE Sound(request[s])'
    <2>1. PICK q : q = request[s]
      OBVIOUS
    <2>2. q \in RequestRow /\ Sound(q)
      BY <2>1 DEF Inductive, TypeOK
    <2>3. Sound(q)'
      BY <2>2, SoundKept
    <2> QED BY <2>1, <2>3 DEF Sound, WebhookSound, Verdict
  <1> QED BY <1>1 DEF Inductive, TypeOK

\* What Inductive says of one request.
LEMMA InFlightSound ==
  ASSUME Inductive, NEW r \in Request
  PROVE  request[r] \in RequestRow /\ Sound(request[r])
  BY DEF Inductive, TypeOK

\* The statements that rely on nothing a request has read.
Plain ==
  {"idle", "activate", "countOutstanding", "restore", "writeActive", "markPastDue",
   "writePastDue", "sweep", "suspend", "writeSuspended", "findOverdue",
   "markOverdue", "closeRun"}

LEMMA PlainSound ==
  ASSUME NEW q \in RequestRow, Sound(q),
         NEW at, at \in Plain \/ at = Afterwards(q)
  PROVE  [q EXCEPT !.at = at] \in RequestRow /\ Sound([q EXCEPT !.at = at])
  <1>1. at \in Plain \/ (at = "answer" /\ q.op = "webhook")
    BY DEF Afterwards, Plain
  <1>2. at \in Step
    BY <1>1 DEF Plain, Step
  <1>3. [q EXCEPT !.at = at] \in RequestRow
    BY <1>2 DEF RequestRow
  <1> DEFINE c == [q EXCEPT !.at = at]
  <1>4. c.at = at /\ c.op = q.op /\ c.row = q.row /\ c.attempt = q.attempt
    BY DEF RequestRow
  <1>5. WebhookSound(c)
    BY <1>1, <1>4 DEF Sound, WebhookSound, Plain
  <1>6. Sound(c)
    BY <1>1, <1>4, <1>5 DEF Sound, Plain
  <1> QED BY <1>3, <1>6

\* The rows keep what was read of them, and request r goes on to a plain statement.
LEMMA WentOn ==
  ASSUME Inductive, Keeps, RowsTypeOK', RowsSound', Safe',
         NEW r \in Request, NEW at,
         at \in Plain \/ at = Afterwards(request[r]), GoTo(r, at)
  PROVE  Inductive'
  <1>1. CASE at = "idle"
    BY <1>1, IdleSound, Written DEF GoTo
  <1>2. CASE at # "idle"
    <2>1. PICK q : q = request[r]
      OBVIOUS
    <2>2. q \in RequestRow /\ Sound(q)
      BY <2>1, InFlightSound
    <2> DEFINE c == [q EXCEPT !.at = at]
    <2>3. c \in RequestRow /\ Sound(c)
      BY <2>1, <2>2, PlainSound
    <2>4. Sound(c)'
      BY <2>3, SoundKept
    <2>5. request' = [request EXCEPT ![r] = c]
      BY <1>2, <2>1 DEF GoTo, Inductive, TypeOK
    <2> QED BY <2>3, <2>4, <2>5, Written
  <1> QED BY <1>1, <1>2

-------------------------------------------------------------------------------
(* The subscription, the invoices and the recurring job.                   *)

\* Whatever becomes of the subscription, of the job and of invoices that are not made
\* PAID, nothing is lost and nothing is violated.
LEMMA AccountChanges ==
  ASSUME Inductive,
         subscription' \in SubscriptionStatus, running' \in BOOLEAN,
         invoice' \in [Invoice -> InvoiceRow],
         \A i \in Invoice : invoice'[i].status = "PAID" => invoice[i].status = "PAID",
         UNCHANGED <<attempt, payment, providerEvent, provider>>
  PROVE  Keeps /\ RowsTypeOK' /\ RowsSound' /\ Safe'
  <1> USE DEF Inductive, provider
  <1>1. Keeps
    BY DEF Keeps
  <1>2. RowsTypeOK'
    BY DEF TypeOK, RowsTypeOK
  <1>3. RowsSound'
    BY DEF RowsSound
  <1>4. Safe'
    BY DEF Safe, PaidIsBooked, BookedFromNotice, AcceptedIsBooked
  <1> QED BY <1>1, <1>2, <1>3, <1>4

\* A statement on the subscription, after which the request goes on to a plain one.
LEMMA SubscriptionChanges ==
  ASSUME Inductive, subscription' \in SubscriptionStatus, UNCHANGED otherRows,
         NEW r \in Request, NEW at,
         at \in Plain \/ at = Afterwards(request[r]), GoTo(r, at)
  PROVE  Inductive'
  <1>1. Keeps /\ RowsTypeOK' /\ RowsSound' /\ Safe'
    BY AccountChanges DEF Inductive, TypeOK, RowsTypeOK, otherRows, provider
  <1> QED BY <1>1, WentOn

\* Every statement of the subscription.
LEMMA SubscriptionNextKeeps ==
  ASSUME Inductive, SubscriptionNext
  PROVE  Inductive'
  <1>1. PICK r \in Request :
          \/ ActivateSubscription(r) \/ CountOutstanding(r) \/ RestoreSubscription(r)
          \/ WriteActive(r) \/ MarkTenantPastDue(r) \/ WritePastDue(r)
          \/ SweepSuspensions(r) \/ SuspendSubscription(r) \/ WriteSuspended(r)
          \/ AdminSuspend(r) \/ AdminRestore(r)
    BY DEF SubscriptionNext
  <1>2. subscription \in SubscriptionStatus
    BY DEF Inductive, TypeOK, RowsTypeOK
  <1>3. CASE ActivateSubscription(r)
    BY <1>2, <1>3, SubscriptionChanges DEF ActivateSubscription, Plain
  <1>4. CASE CountOutstanding(r)
    BY <1>2, <1>4, SubscriptionChanges DEF CountOutstanding, Plain
  <1>5. CASE RestoreSubscription(r)
    BY <1>2, <1>5, SubscriptionChanges DEF RestoreSubscription, Plain
  <1>6. CASE WriteActive(r)
    BY <1>6, SubscriptionChanges DEF WriteActive, SubscriptionStatus
  <1>7. CASE MarkTenantPastDue(r)
    BY <1>2, <1>7, SubscriptionChanges DEF MarkTenantPastDue, NextOverdue, Plain
  <1>8. CASE WritePastDue(r)
    BY <1>8, SubscriptionChanges DEF WritePastDue, NextOverdue, Plain, SubscriptionStatus
  <1>9. CASE SweepSuspensions(r)
    BY <1>2, <1>9, SubscriptionChanges DEF SweepSuspensions, Plain
  <1>10. CASE SuspendSubscription(r)
    BY <1>2, <1>10, SubscriptionChanges DEF SuspendSubscription, Plain
  <1>11. CASE WriteSuspended(r)
    BY <1>11, SubscriptionChanges DEF WriteSuspended, Plain, SubscriptionStatus
  <1>12. ASSUME NEW op \in {"adminSuspend", "adminRestore"},
                NEW at \in {"writeSuspended", "writeActive"}
         PROVE  Call(op, at) \in RequestRow /\ Sound(Call(op, at))
    BY DEF Call, Idle, RequestRow, Step, Operation, Result, Sound, WebhookSound
  <1>13. CASE AdminSuspend(r)
    BY <1>12, <1>13, Served DEF AdminSuspend, otherRows, tenantRows, provider
  <1>14. CASE AdminRestore(r)
    BY <1>12, <1>14, Served DEF AdminRestore, otherRows, tenantRows, provider
  <1> QED BY <1>1, <1>3, <1>4, <1>5, <1>6, <1>7, <1>8, <1>9, <1>10, <1>11, <1>13, <1>14

\* A statement on the invoices and the job, after which the request goes on to a plain one.
LEMMA InvoiceChanges ==
  ASSUME Inductive, running' \in BOOLEAN,
         invoice' \in [Invoice -> InvoiceRow],
         \A i \in Invoice : invoice'[i].status = "PAID" => invoice[i].status = "PAID",
         UNCHANGED noInvoiceRow,
         NEW r \in Request, NEW at,
         at \in Plain \/ at = Afterwards(request[r]), GoTo(r, at)
  PROVE  Inductive'
  <1>1. Keeps /\ RowsTypeOK' /\ RowsSound' /\ Safe'
    BY AccountChanges DEF Inductive, TypeOK, RowsTypeOK, noInvoiceRow, provider
  <1> QED BY <1>1, WentOn

\* The handlers that start with a period or an invoice they have found.
LEMMA PeriodCallSound ==
  ASSUME NEW op \in {"cycle", "generate"}, NEW at \in {"findInvoice", "insertInvoice"},
         NEW p \in Period
  PROVE  /\ [Call(op, at) EXCEPT !.period = p] \in RequestRow
         /\ Sound([Call(op, at) EXCEPT !.period = p])
  BY DEF Call, Idle, RequestRow, Step, Operation, Result, Sound, WebhookSound

LEMMA InvoiceCallSound ==
  ASSUME NEW op \in {"void", "reissue"}, NEW at \in {"writeVoid", "insertReissue"},
         NEW i \in Invoice
  PROVE  /\ [Call(op, at) EXCEPT !.invoice = i] \in RequestRow
         /\ Sound([Call(op, at) EXCEPT !.invoice = i])
  BY DEF Call, Idle, RequestRow, Step, Operation, Result, Sound, WebhookSound

\* A new invoice in a free row, and what the index refuses.
LEMMA IssuedKeeps ==
  ASSUME Inductive, NEW p \in Period \cup {None}, NEW o \in Invoice \cup {None},
         NEW i \in Invoice, invoice' = [invoice EXCEPT ![i] = Issued(p, o)]
  PROVE  /\ invoice' \in [Invoice -> InvoiceRow]
         /\ \A j \in Invoice : invoice'[j].status = "PAID" => invoice[j].status = "PAID"
  <1>1. Issued(p, o) \in InvoiceRow /\ Issued(p, o).status # "PAID"
    BY DEF Issued, InvoiceRow, InvoiceStatus
  <1> QED BY <1>1 DEF Inductive, TypeOK, RowsTypeOK

\* An update of the status of one invoice to anything but PAID.
LEMMA StatusKeeps ==
  ASSUME Inductive, NEW i \in Invoice, NEW s \in {"OVERDUE", "VOID"},
         invoice' = [invoice EXCEPT ![i].status = s]
  PROVE  /\ invoice' \in [Invoice -> InvoiceRow]
         /\ \A j \in Invoice : invoice'[j].status = "PAID" => invoice[j].status = "PAID"
  <1>1. \A j \in Invoice : invoice[j] \in InvoiceRow
    BY DEF Inductive, TypeOK, RowsTypeOK
  <1>2. [invoice[i] EXCEPT !.status = s] \in InvoiceRow
    BY <1>1 DEF InvoiceRow, InvoiceStatus
  <1>3. invoice' \in [Invoice -> InvoiceRow]
    BY <1>1, <1>2 DEF Inductive, TypeOK, RowsTypeOK
  <1>4. ASSUME NEW j \in Invoice, invoice'[j].status = "PAID" PROVE invoice[j].status = "PAID"
    <2>1. CASE j = i
      <3>1. invoice'[i].status = s
        BY <1>1 DEF Inductive, TypeOK, RowsTypeOK, InvoiceRow
      <3> QED BY <2>1, <3>1, <1>4
    <2>2. CASE j # i
      BY <2>2, <1>4 DEF Inductive, TypeOK, RowsTypeOK
    <2> QED BY <2>1, <2>2
  <1> QED BY <1>3, <1>4

\* Every statement of the invoices and of the recurring job.
LEMMA InvoiceNextKeeps ==
  ASSUME Inductive, InvoiceNext
  PROVE  Inductive'
  <1>1. invoice \in [Invoice -> InvoiceRow] /\ running \in BOOLEAN
        /\ subscription \in SubscriptionStatus
    BY DEF Inductive, TypeOK, RowsTypeOK
  <1>2. ASSUME NEW r \in Request, BeginCycle(r) PROVE Inductive'
    <2>1. PICK p \in Period : Serve(r, [Call("cycle", "findInvoice") EXCEPT !.period = p])
      BY <1>2 DEF BeginCycle
    <2> DEFINE c == [Call("cycle", "findInvoice") EXCEPT !.period = p]
    <2>2. c \in RequestRow /\ Sound(c)
      BY PeriodCallSound
    <2>3. Keeps /\ RowsTypeOK' /\ RowsSound' /\ Safe'
      BY <1>1, <1>2, AccountChanges DEF BeginCycle, noInvoiceRow, provider
    <2>4. Sound(c)'
      BY <2>2, <2>3, SoundKept
    <2>5. request' = [request EXCEPT ![r] = c]
      BY <2>1 DEF Serve
    <2> QED BY <2>2, <2>3, <2>4, <2>5, Written
  <1>3. ASSUME NEW r \in Request, CloseRun(r) PROVE Inductive'
    BY <1>1, <1>3, InvoiceChanges DEF CloseRun, Plain
  <1>4. ASSUME NEW r \in Request, GenerateInvoice(r) PROVE Inductive'
    <2>1. PICK p \in Period : Serve(r, [Call("generate", "insertInvoice") EXCEPT !.period = p])
      BY <1>4 DEF GenerateInvoice
    <2> DEFINE c == [Call("generate", "insertInvoice") EXCEPT !.period = p]
    <2>2. c \in RequestRow /\ Sound(c)
      BY PeriodCallSound
    <2> QED BY <1>4, <2>1, <2>2, Served DEF GenerateInvoice, noInvoiceRow, tenantRows, provider
  <1>5. ASSUME NEW r \in Request, FindInvoice(r) PROVE Inductive'
    <2>1. CASE Billed(request[r].period)
      BY <1>1, <1>5, <2>1, InvoiceChanges DEF FindInvoice, Plain
    <2>2. CASE ~Billed(request[r].period)
      <3>1. PICK q : q = request[r]
        OBVIOUS
      <3>2. q \in RequestRow /\ Sound(q)
        BY <3>1, InFlightSound
      <3> DEFINE c == [q EXCEPT !.at = "insertInvoice"]
      <3>3. q.at = "findInvoice" /\ request' = [request EXCEPT ![r] = c]
        BY <1>5, <2>2, <3>1 DEF FindInvoice, GoTo, Inductive, TypeOK
      <3>4. c \in RequestRow /\ Sound(c)
        BY <3>2, <3>3 DEF RequestRow, Step, Sound, WebhookSound
      <3>5. Keeps /\ RowsTypeOK' /\ RowsSound' /\ Safe'
        BY <1>5, Still DEF FindInvoice, noInvoiceRow, tenantRows, provider
      <3>6. Sound(c)'
        BY <3>4, <3>5, SoundKept
      <3> QED BY <3>3, <3>4, <3>5, <3>6, Written
    <2> QED BY <2>1, <2>2
  <1>6. ASSUME NEW r \in Request, InsertInvoice(r) PROVE Inductive'
    <2>1. request[r].period \in Period
      BY <1>6, InFlightSound DEF InsertInvoice, Sound
    <2>2. ASSUME NEW i \in Free, GoTo(r, "activate"),
                 invoice' = [invoice EXCEPT ![i] = Issued(request[r].period, None)]
          PROVE  Inductive'
      <3>1. PICK p \in Period : p = request[r].period
        BY <2>1
      <3>2. /\ invoice' \in [Invoice -> InvoiceRow]
            /\ \A j \in Invoice : invoice'[j].status = "PAID" => invoice[j].status = "PAID"
        BY <2>2, <3>1, IssuedKeeps DEF Free
      <3> QED BY <1>1, <1>6, <2>2, <3>2, InvoiceChanges DEF InsertInvoice, Plain
    <2>3. ASSUME UNCHANGED invoice, GoTo(r, Afterwards(request[r])) PROVE Inductive'
      BY <1>1, <1>6, <2>3, InvoiceChanges DEF InsertInvoice
    <2> QED BY <1>6, <2>2, <2>3 DEF InsertInvoice
  <1>7. ASSUME NEW r \in Request, FindOverdue(r) PROVE Inductive'
    <2>1. PICK q : q = request[r]
      OBVIOUS
    <2>2. q \in RequestRow /\ Sound(q)
      BY <2>1, InFlightSound
    <2>3. PICK d \in SUBSET Invoice, at \in {"sweep", "markOverdue"} :
            request' = [request EXCEPT ![r].due = d, ![r].at = at]
      BY <1>7 DEF FindOverdue
    <2> DEFINE c == [q EXCEPT !.due = d, !.at = at]
    <2>4. request' = [request EXCEPT ![r] = c]
      BY <2>1, <2>3 DEF Inductive, TypeOK
    <2>5. c \in RequestRow /\ Sound(c)
      <3>1. c \in RequestRow
        BY <2>2 DEF RequestRow, Step
      <3>2. c.at = at /\ c.op = q.op /\ c.row = q.row /\ c.attempt = q.attempt
        BY <2>2 DEF RequestRow
      <3>3. WebhookSound(c)
        BY <2>2, <3>2 DEF Sound, WebhookSound
      <3> QED BY <3>1, <3>2, <3>3 DEF Sound
    <2>6. Keeps /\ RowsTypeOK' /\ RowsSound' /\ Safe'
      BY <1>7, Still DEF FindOverdue, noInvoiceRow, tenantRows, provider
    <2>7. Sound(c)'
      BY <2>5, <2>6, SoundKept
    <2> QED BY <2>4, <2>5, <2>6, <2>7, Written
  <1>8. ASSUME NEW r \in Request, MarkOverdue(r) PROVE Inductive'
    <2>1. PICK q : q = request[r]
      OBVIOUS
    <2>2. q \in RequestRow /\ Sound(q)
      BY <2>1, InFlightSound
    <2>3. PICK i \in q.due :
            /\ invoice' = [invoice EXCEPT ![i].status = "OVERDUE"]
            /\ request' = [request EXCEPT ![r].due = @ \ {i}, ![r].at = "markPastDue"]
      BY <1>8, <2>1 DEF MarkOverdue
    <2>4. i \in Invoice
      BY <2>2 DEF RequestRow
    <2>5. PICK d \in SUBSET Invoice : d = q.due \ {i}
      BY <2>2 DEF RequestRow
    <2> DEFINE c == [q EXCEPT !.due = d, !.at = "markPastDue"]
    <2>6. /\ request' = [request EXCEPT ![r] = c]
          /\ c \in RequestRow /\ Sound(c)
      <3>1. request' = [request EXCEPT ![r] = c]
        BY <2>1, <2>3, <2>5 DEF Inductive, TypeOK
      <3>2. c \in RequestRow
        BY <2>2 DEF RequestRow, Step
      <3>3. c.at = "markPastDue" /\ c.op = q.op /\ c.row = q.row /\ c.attempt = q.attempt
        BY <2>2 DEF RequestRow
      <3>4. WebhookSound(c)
        BY <2>2, <3>3 DEF Sound, WebhookSound
      <3>5. Sound(c)
        BY <3>3, <3>4 DEF Sound
      <3> QED BY <3>1, <3>2, <3>5
    <2>7. Keeps /\ RowsTypeOK' /\ RowsSound' /\ Safe'
      BY <1>1, <1>8, <2>3, <2>4, StatusKeeps, AccountChanges DEF MarkOverdue, noInvoiceRow, provider
    <2>8. Sound(c)'
      BY <2>6, <2>7, SoundKept
    <2> QED BY <2>6, <2>7, <2>8, Written
  <1>9. ASSUME NEW r \in Request, VoidInvoice(r) PROVE Inductive'
    <2>1. PICK i \in Invoice : Serve(r, [Call("void", "writeVoid") EXCEPT !.invoice = i])
      BY <1>9 DEF VoidInvoice
    <2> DEFINE c == [Call("void", "writeVoid") EXCEPT !.invoice = i]
    <2>2. c \in RequestRow /\ Sound(c)
      BY InvoiceCallSound
    <2> QED BY <1>9, <2>1, <2>2, Served DEF VoidInvoice, noInvoiceRow, tenantRows, provider
  <1>10. ASSUME NEW r \in Request, WriteVoid(r) PROVE Inductive'
    <2>1. PICK i \in Invoice : i = request[r].invoice
      BY <1>10, InFlightSound DEF WriteVoid, Sound
    <2>2. /\ invoice' \in [Invoice -> InvoiceRow]
          /\ \A j \in Invoice : invoice'[j].status = "PAID" => invoice[j].status = "PAID"
      BY <1>10, <2>1, StatusKeeps DEF WriteVoid
    <2> QED BY <1>1, <1>10, <2>2, InvoiceChanges DEF WriteVoid, Plain
  <1>11. ASSUME NEW r \in Request, ReissueInvoice(r) PROVE Inductive'
    <2>1. PICK i \in Invoice : Serve(r, [Call("reissue", "insertReissue") EXCEPT !.invoice = i])
      BY <1>11 DEF ReissueInvoice
    <2> DEFINE c == [Call("reissue", "insertReissue") EXCEPT !.invoice = i]
    <2>2. c \in RequestRow /\ Sound(c)
      BY InvoiceCallSound
    <2> QED BY <1>11, <2>1, <2>2, Served DEF ReissueInvoice, noInvoiceRow, tenantRows, provider
  <1>12. ASSUME NEW r \in Request, InsertReissue(r) PROVE Inductive'
    <2>1. PICK o \in Invoice : o = request[r].invoice
      BY <1>12, InFlightSound DEF InsertReissue, Sound
    <2>2. UNCHANGED invoice \/ \E i \in Invoice : invoice' = [invoice EXCEPT ![i] = Issued(None, o)]
      BY <1>12, <2>1 DEF InsertReissue, Free
    <2>3. /\ invoice' \in [Invoice -> InvoiceRow]
          /\ \A j \in Invoice : invoice'[j].status = "PAID" => invoice[j].status = "PAID"
      BY <1>1, <2>2, IssuedKeeps
    <2> QED BY <1>1, <1>12, <2>3, InvoiceChanges DEF InsertReissue, Plain
  <1>13. ASSUME NEW i \in Invoice, InvoiceAges(i) PROVE Inductive'
    <2>1. PICK age \in {"DUE", "LATE"} : invoice' = [invoice EXCEPT ![i].age = age]
      BY <1>13 DEF InvoiceAges
    <2>2. /\ invoice' \in [Invoice -> InvoiceRow]
          /\ \A j \in Invoice : invoice'[j].status = "PAID" => invoice[j].status = "PAID"
      BY <1>1, <2>1 DEF InvoiceRow
    <2>3. Keeps /\ RowsTypeOK' /\ RowsSound' /\ Safe'
      BY <1>1, <1>13, <2>2, AccountChanges DEF InvoiceAges, noInvoiceRow, provider
    <2> QED BY <1>13, <2>3, Unasked DEF InvoiceAges
  <1> QED BY <1>2, <1>3, <1>4, <1>5, <1>6, <1>7, <1>8, <1>9, <1>10, <1>11, <1>12, <1>13
          DEF InvoiceNext

-------------------------------------------------------------------------------
(* The provider, the webhook and the manual payments.                      *)

\* What TypeOK says of the rows, for citing.
LEMMA RowsTyped ==
  ASSUME Inductive
  PROVE  /\ RowsTypeOK /\ RowsSound /\ Safe
         /\ attempt \in [Attempt -> AttemptRow] /\ payment \in [PaymentKey -> Invoice \cup {None}]
         /\ invoice \in [Invoice -> InvoiceRow] /\ checkout \in [Attempt -> Checkout]
         /\ notice \in [ProviderEvent -> Notice] /\ providerEvent \in [ProviderEvent -> Result]
  BY DEF Inductive, TypeOK, RowsTypeOK

\* The provider settles a checkout: only a PENDING one changes.
LEMMA SettleCheckoutKeeps ==
  ASSUME Inductive, NEW a \in Attempt, SettleCheckout(a)
  PROVE  Inductive'
  <1>1. PICK s \in {"SUCCESSFUL", "FAILED"} : checkout' = [checkout EXCEPT ![a].status = s]
    BY DEF SettleCheckout
  <1>2. /\ checkout[a].status = "PENDING"
        /\ checkout' \in [Attempt -> Checkout]
        /\ \A b \in Attempt \ {a} : checkout'[b] = checkout[b]
        /\ checkout'[a].status = s /\ checkout'[a].invoice = checkout[a].invoice
    BY <1>1, RowsTyped DEF SettleCheckout, Checkout, PaymentStatus
  <1>3. checkout[a] # NoCheckout /\ checkout'[a] # NoCheckout
    BY <1>2 DEF NoCheckout
  <1> USE DEF SettleCheckout, tenantRows
  <1>4. Keeps
    BY <1>2, <1>3 DEF Keeps
  <1>5. RowsTypeOK'
    BY <1>2, RowsTyped DEF RowsTypeOK
  <1>6. RowsSound'
    BY <1>2, <1>3, RowsTyped DEF RowsSound, PaymentStatus
  <1>7. Safe'
    <2>1. PaidIsBooked' /\ AcceptedIsBooked'
      BY RowsTyped DEF Safe, PaidIsBooked, AcceptedIsBooked
    <2>2. BookedFromNotice'
      <3> SUFFICES ASSUME NEW e \in ProviderEvent, payment[e] # None
                   PROVE  /\ notice[e].status = "SUCCESSFUL" /\ notice[e].amount # "other"
                          /\ checkout'[notice[e].attempt] =
                               [status |-> "SUCCESSFUL", invoice |-> payment[e]]
        BY DEF BookedFromNotice
      <3>1. /\ notice[e].status = "SUCCESSFUL" /\ notice[e].amount # "other"
            /\ checkout[notice[e].attempt] = [status |-> "SUCCESSFUL", invoice |-> payment[e]]
        BY RowsTyped DEF Safe, BookedFromNotice
      <3>2. notice[e].attempt # a
        BY <1>2, <3>1
      <3>3. checkout'[notice[e].attempt] = checkout[notice[e].attempt]
        BY <1>1, <3>2, RowsTyped
      <3> QED BY <3>1, <3>3
    <2> QED BY <2>1, <2>2 DEF Safe
  <1> QED BY <1>4, <1>5, <1>6, <1>7, Unasked

\* The provider announces a checkout: a new event, and only the truth.
LEMMA AnnounceKeeps ==
  ASSUME Inductive, NEW e \in ProviderEvent, Announce(e)
  PROVE  Inductive'
  <1>1. PICK a \in Attempt, amount \in Amount :
          /\ checkout[a] # NoCheckout
          /\ notice' = [notice EXCEPT ![e] = [status |-> checkout[a].status,
                                              attempt |-> a, amount |-> amount]]
    BY DEF Announce
  <1>2. /\ notice[e] = NoNotice
        /\ notice' \in [ProviderEvent -> Notice]
        /\ \A f \in ProviderEvent \ {e} : notice'[f] = notice[f]
        /\ notice'[e].status = checkout[a].status /\ notice'[e].attempt = a
    BY <1>1, RowsTyped DEF Announce, Notice, Checkout
  <1>3. payment[e] = None
    <2>1. payment[e] # None => notice[e].status = "SUCCESSFUL"
      BY RowsTyped DEF Safe, BookedFromNotice
    <2>2. notice[e].status # "SUCCESSFUL"
      BY <1>2 DEF NoNotice
    <2> QED BY <2>1, <2>2
  <1>4. providerEvent[e] = "NONE"
    BY <1>2, RowsTyped DEF RowsSound
  <1> USE DEF Announce, tenantRows
  <1>5. Keeps
    BY <1>2 DEF Keeps
  <1>6. RowsTypeOK'
    BY <1>2, RowsTyped DEF RowsTypeOK
  <1>7. notice'[e] # NoNotice
    BY <1>2, NoRow DEF NoNotice
  <1>8. RowsSound'
    BY <1>1, <1>2, <1>4, <1>7, RowsTyped DEF RowsSound
  <1>9. Safe'
    BY <1>2, <1>3, <1>4, RowsTyped DEF Safe, PaidIsBooked, BookedFromNotice, AcceptedIsBooked
  <1> QED BY <1>5, <1>6, <1>8, <1>9, Unasked

\* A checkout for a payable invoice, and the attempt that will refer to it.
LEMMA InitiatePaymentKeeps ==
  ASSUME Inductive, NEW r \in Request, InitiatePayment(r)
  PROVE  Inductive'
  <1>1. PICK i \in Invoice, a \in Attempt :
          /\ checkout[a] = NoCheckout
          /\ Serve(r, [Call("initiate", "insertAttempt") EXCEPT !.invoice = i, !.attempt = a])
          /\ checkout' = [checkout EXCEPT ![a] = [status |-> "PENDING", invoice |-> i]]
          /\ UNCHANGED <<billingRows, notice, acknowledged>>
    BY DEF InitiatePayment
  <1> DEFINE c == [Call("initiate", "insertAttempt") EXCEPT !.invoice = i, !.attempt = a]
  <1>2. c \in RequestRow
    BY DEF Call, Idle, RequestRow, Step, Operation, Result
  <1>3. c.at = "insertAttempt" /\ c.op = "initiate" /\ c.attempt = a /\ c.invoice = i
    BY DEF Call, Idle
  <1>4. /\ checkout'[a].status = "PENDING" /\ checkout'[a].invoice = i
        /\ \A b \in Attempt \ {a} : checkout'[b] = checkout[b]
        /\ checkout' \in [Attempt -> Checkout]
    BY <1>1, RowsTyped DEF Checkout, PaymentStatus
  <1>5. checkout'[a] # NoCheckout
    BY <1>4 DEF NoCheckout
  <1>6. Sound(c)'
    BY <1>3, <1>4 DEF Sound, WebhookSound
  <1> USE DEF billingRows
  <1>7. Keeps
    BY <1>1, <1>4 DEF Keeps
  <1>8. RowsTypeOK'
    BY <1>1, <1>4, RowsTyped DEF RowsTypeOK
  <1>9. \A e \in ProviderEvent : notice[e] # NoNotice => notice[e].attempt # a
    BY <1>1, RowsTyped DEF RowsSound
  <1>10. RowsSound'
    BY <1>1, <1>4, <1>5, <1>9, RowsTyped DEF RowsSound, PaymentStatus
  <1>11. Safe'
    <2>1. PaidIsBooked' /\ AcceptedIsBooked'
      BY <1>1, RowsTyped DEF Safe, PaidIsBooked, AcceptedIsBooked
    <2>2. BookedFromNotice'
      <3> SUFFICES ASSUME NEW e \in ProviderEvent, payment[e] # None
                   PROVE  /\ notice[e].status = "SUCCESSFUL" /\ notice[e].amount # "other"
                          /\ checkout'[notice[e].attempt] =
                               [status |-> "SUCCESSFUL", invoice |-> payment[e]]
        BY <1>1 DEF BookedFromNotice
      <3>1. /\ notice[e].status = "SUCCESSFUL" /\ notice[e].amount # "other"
            /\ checkout[notice[e].attempt] = [status |-> "SUCCESSFUL", invoice |-> payment[e]]
        BY RowsTyped DEF Safe, BookedFromNotice
      <3>2. notice[e].attempt # a
        BY <1>1, <3>1 DEF NoCheckout
      <3>3. checkout'[notice[e].attempt] = checkout[notice[e].attempt]
        BY <1>1, <3>2, RowsTyped
      <3> QED BY <3>1, <3>3
    <2> QED BY <2>1, <2>2 DEF Safe
  <1> QED BY <1>1, <1>2, <1>6, <1>7, <1>8, <1>10, <1>11, Written DEF Serve

\* The attempt is inserted for the invoice of its checkout.
LEMMA InsertAttemptKeeps ==
  ASSUME Inductive, NEW r \in Request, InsertAttempt(r)
  PROVE  Inductive'
  <1>1. PICK i \in Invoice, a \in Attempt :
          /\ a = request[r].attempt /\ i = request[r].invoice
          /\ checkout[a].invoice = i
          /\ attempt' = [attempt EXCEPT ![a] =
               [NoAttempt EXCEPT !.status = "PENDING", !.invoice = i]]
    BY InFlightSound DEF InsertAttempt, Sound
  <1>2. /\ attempt'[a].status = "PENDING" /\ attempt'[a].invoice = i
        /\ \A b \in Attempt \ {a} : attempt'[b] = attempt[b]
        /\ attempt' \in [Attempt -> AttemptRow]
    BY <1>1, RowsTyped DEF AttemptRow, NoAttempt, PaymentStatus
  <1>3. attempt'[a] # NoAttempt /\ checkout[a] # NoCheckout
    <2>1. None \notin Invoice
      BY NoRow
    <2>2. attempt'[a] # NoAttempt
      BY <1>2 DEF NoAttempt
    <2> QED BY <1>1, <2>1, <2>2 DEF NoCheckout
  <1> USE DEF InsertAttempt, provider
  <1>4. Keeps
    BY <1>1, <1>2, <1>3, RowsTyped DEF Keeps, RowsSound
  <1>5. RowsTypeOK'
    BY <1>2, RowsTyped DEF RowsTypeOK
  <1>6. RowsSound'
    BY <1>1, <1>2, <1>3, RowsTyped DEF RowsSound
  <1>7. Safe'
    BY RowsTyped DEF Safe, PaidIsBooked, BookedFromNotice, AcceptedIsBooked
  <1> QED BY <1>4, <1>5, <1>6, <1>7, WentOn DEF Plain

\* A delivery: an event that has no row yet looks for its attempt.
LEMMA ReceiveEventKeeps ==
  ASSUME Inductive, NEW r \in Request, NEW e \in ProviderEvent, ReceiveEvent(r, e)
  PROVE  Inductive'
  <1>0. PICK at \in {"insertEvent", "answer"} : \E a :
          /\ a = None \/ (a = notice[e].attempt /\ attempt[a] # NoAttempt)
          /\ Serve(r, [Call("webhook", at) EXCEPT !.row = e, !.attempt = a])
    BY DEF ReceiveEvent
  <1>1. PICK a : /\ a = None \/ (a = notice[e].attempt /\ attempt[a] # NoAttempt)
                 /\ Serve(r, [Call("webhook", at) EXCEPT !.row = e, !.attempt = a])
    BY <1>0
  <1> DEFINE c == [Call("webhook", at) EXCEPT !.row = e, !.attempt = a]
  <1>2. notice[e] # NoNotice /\ a \in Attempt \cup {None}
    BY <1>1, RowsTyped DEF ReceiveEvent, RowsSound
  <1>3. c \in RequestRow
    BY <1>2 DEF Call, Idle, RequestRow, Step, Operation, Result, PaymentKey
  <1>4. c.at = at /\ c.op = "webhook" /\ c.row = e /\ c.attempt = a
    BY DEF Call, Idle
  <1>5. Sound(c)
    BY <1>1, <1>2, <1>4 DEF Sound, WebhookSound
  <1> QED BY <1>1, <1>3, <1>5, Served DEF ReceiveEvent

\* What the webhook knows of its event before a statement, for citing.
LEMMA WebhookKnows ==
  ASSUME Inductive, NEW r \in Request,
         request[r].at \in {"insertEvent", "writeAttempt", "bookPayment", "closeEvent", "answer"}
  PROVE  /\ request[r] \in RequestRow /\ Sound(request[r]) /\ WebhookSound(request[r])
         /\ request[r].op = "webhook" /\ request[r].row \in ProviderEvent
         /\ notice[request[r].row] # NoNotice
         /\ request[r].attempt # None =>
              /\ request[r].attempt = notice[request[r].row].attempt
              /\ request[r].attempt \in Attempt /\ attempt[request[r].attempt] # NoAttempt
  BY InFlightSound DEF Sound, WebhookSound, RequestRow

\* A statement of the webhook that changes no more than event rows and acknowledgements.
LEMMA EventRowChanges ==
  ASSUME Inductive, providerEvent' \in [ProviderEvent -> Result],
         acknowledged' \subseteq ProviderEvent,
         UNCHANGED <<subscription, running, invoice, attempt, payment, checkout, notice>>,
         \A e \in ProviderEvent : providerEvent'[e] # providerEvent[e] =>
           /\ notice[e] # NoNotice
           /\ providerEvent'[e] = "ACCEPTED" /\ notice[e].status = "SUCCESSFUL" => payment[e] # None
  PROVE  Keeps /\ RowsTypeOK' /\ RowsSound' /\ Safe'
  <1>1. Keeps
    BY DEF Keeps
  <1>2. RowsTypeOK'
    BY RowsTyped DEF RowsTypeOK
  <1>3. RowsSound'
    BY RowsTyped DEF RowsSound
  <1>4. Safe'
    BY RowsTyped DEF Safe, PaidIsBooked, BookedFromNotice, AcceptedIsBooked
  <1> QED BY <1>1, <1>2, <1>3, <1>4

\* The event is inserted, or refused by its index; the verdict is fixed by then.
LEMMA InsertEventKeeps ==
  ASSUME Inductive, NEW r \in Request, InsertEvent(r)
  PROVE  Inductive'
  <1>1. PICK q : q = request[r]
    OBVIOUS
  <1>2. /\ q.at = "insertEvent" /\ q \in RequestRow /\ WebhookSound(q) /\ q.op = "webhook"
        /\ q.row \in ProviderEvent /\ notice[q.row] # NoNotice
    BY <1>1, WebhookKnows DEF InsertEvent
  <1> USE DEF InsertEvent, provider
  <1>3. CASE providerEvent[q.row] # "NONE"
    <2>1. GoTo(r, "idle") /\ UNCHANGED providerEvent
      BY <1>1, <1>3
    <2> QED BY <2>1, Still, WentOn DEF Plain, tenantRows
  <1>4. CASE providerEvent[q.row] = "NONE"
    <2>1. Verdict(q) \in {"ERROR", "REJECTED", "ACCEPTED"}
      BY DEF Verdict
    <2>2. PICK v, at : /\ v = Verdict(q)
                       /\ at = IF Verdict(q) = "ACCEPTED" THEN "writeAttempt" ELSE "closeEvent"
      OBVIOUS
    <2> DEFINE c == [q EXCEPT !.result = v, !.at = at]
    <2>3. /\ request' = [request EXCEPT ![r] = c]
          /\ providerEvent' = [providerEvent EXCEPT ![q.row] = "RECEIVED"]
      BY <1>1, <1>4, <2>2 DEF Inductive, TypeOK
    <2>4. Keeps /\ RowsTypeOK' /\ RowsSound' /\ Safe'
      BY <1>2, <2>3, RowsTyped, EventRowChanges DEF Result, RowsTypeOK
    <2>5. /\ c \in RequestRow /\ c.result = v /\ c.at = at
          /\ c.op = q.op /\ c.row = q.row /\ c.attempt = q.attempt
      <3>1. v \in Result /\ at \in Step
        BY <2>1, <2>2 DEF Result, Step
      <3> QED BY <1>2, <3>1 DEF RequestRow
    <2>6. Verdict(c) = v
      BY <2>2, <2>5 DEF Verdict
    <2>7. v = "ACCEPTED" => at = "writeAttempt"
      BY <2>2
    <2>8. at = "writeAttempt" \/ at = "closeEvent"
      BY <2>2
    <2>9. at = "writeAttempt" => v = "ACCEPTED"
      BY <2>2
    <2>10. WebhookSound(c)
      BY <1>2, <2>5, <2>6, <2>7, <2>8, <2>9 DEF WebhookSound
    <2>11. Sound(c)
      BY <2>5, <2>8, <2>10 DEF Sound
    <2>12. Sound(c)'
      BY <2>4, <2>5, <2>11, SoundKept
    <2> QED BY <2>3, <2>4, <2>5, <2>12, Written
  <1> QED BY <1>3, <1>4

\* The event is closed with its verdict: an accepted success has its payment by now.
LEMMA CloseEventKeeps ==
  ASSUME Inductive, NEW r \in Request, CloseEvent(r)
  PROVE  Inductive'
  <1>1. PICK q : q = request[r]
    OBVIOUS
  <1>2. /\ q.at = "closeEvent" /\ q \in RequestRow /\ Sound(q) /\ WebhookSound(q)
        /\ q.op = "webhook" /\ q.row \in ProviderEvent /\ notice[q.row] # NoNotice
    BY <1>1, WebhookKnows DEF CloseEvent
  <1>3. providerEvent' = [providerEvent EXCEPT ![q.row] = q.result]
    BY <1>1 DEF CloseEvent
  <1>4. Keeps /\ RowsTypeOK' /\ RowsSound' /\ Safe'
    <2>1. providerEvent' \in [ProviderEvent -> Result]
      BY <1>2, <1>3, RowsTyped DEF RequestRow
    <2>2. \A e \in ProviderEvent : providerEvent'[e] # providerEvent[e] =>
            /\ notice[e] # NoNotice
            /\ providerEvent'[e] = "ACCEPTED" /\ notice[e].status = "SUCCESSFUL" => payment[e] # None
      BY <1>2, <1>3, RowsTyped DEF WebhookSound
    <2> QED BY <2>1, <2>2, EventRowChanges, RowsTyped DEF CloseEvent, provider, RowsTypeOK
  <1>5. PICK at : at = IF q.result = "ACCEPTED" /\ notice[q.row].status = "SUCCESSFUL"
                       THEN "countOutstanding" ELSE "answer"
    OBVIOUS
  <1>6. GoTo(r, at)
    BY <1>1, <1>5 DEF CloseEvent
  <1>7. at \in Plain \/ at = Afterwards(q)
    BY <1>2, <1>5 DEF Plain, Afterwards
  <1> QED BY <1>1, <1>4, <1>6, <1>7, WentOn

\* The delivery is answered.
LEMMA AnswerKeeps ==
  ASSUME Inductive, NEW r \in Request, Answer(r)
  PROVE  Inductive'
  <1>1. request[r].row \in ProviderEvent
    BY WebhookKnows DEF Answer
  <1>2. Keeps /\ RowsTypeOK' /\ RowsSound' /\ Safe'
    BY <1>1, EventRowChanges, RowsTyped DEF Answer, tenantRows, RowsTypeOK
  <1> QED BY <1>2, WentOn DEF Answer, Plain

\* The attempt takes the status of the event; only a success goes on to be booked.
LEMMA WriteAttemptKeeps ==
  ASSUME Inductive, NEW r \in Request, WriteAttempt(r)
  PROVE  Inductive'
  <1>1. PICK q : q = request[r]
    OBVIOUS
  <1>2. /\ q.at = "writeAttempt" /\ q \in RequestRow /\ Sound(q) /\ WebhookSound(q)
        /\ q.op = "webhook" /\ q.row \in ProviderEvent /\ notice[q.row] # NoNotice
        /\ q.attempt # None =>
             /\ q.attempt = notice[q.row].attempt
             /\ q.attempt \in Attempt /\ attempt[q.attempt] # NoAttempt
    BY <1>1, WebhookKnows DEF WriteAttempt
  <1>3. q.attempt # None /\ q.result = Verdict(q) /\ q.result = "ACCEPTED"
    BY <1>2 DEF WebhookSound, Verdict
  <1>4. PICK a \in Attempt, s \in PaymentStatus :
          a = q.attempt /\ s = notice[q.row].status
    BY <1>2, <1>3, RowsTyped DEF RowsSound
  <1>5. attempt' = [attempt EXCEPT ![a].status = s]
    BY <1>1, <1>4 DEF WriteAttempt
  <1>6. /\ attempt' \in [Attempt -> AttemptRow]
        /\ attempt'[a].status = s /\ attempt'[a].invoice = attempt[a].invoice
        /\ \A b \in Attempt \ {a} : attempt'[b] = attempt[b]
    BY <1>5, RowsTyped DEF AttemptRow
  <1>7. attempt'[a] # NoAttempt
    BY <1>6 DEF NoAttempt, PaymentStatus
  <1>8. attempt[a] # NoAttempt
    BY <1>2, <1>3, <1>4
  <1>9. Keeps /\ RowsTypeOK' /\ RowsSound' /\ Safe'
    <2> USE DEF WriteAttempt, provider
    <2>1. Keeps
      BY <1>6, <1>7 DEF Keeps
    <2>2. RowsTypeOK'
      BY <1>6, RowsTyped DEF RowsTypeOK
    <2>3. RowsSound'
      BY <1>6, <1>8, RowsTyped DEF RowsSound
    <2>4. Safe'
      BY RowsTyped DEF Safe, PaidIsBooked, BookedFromNotice, AcceptedIsBooked
    <2> QED BY <2>1, <2>2, <2>3, <2>4
  <1>10. PICK at \in {"bookPayment", "closeEvent"} :
           at = IF s = "SUCCESSFUL" THEN "bookPayment" ELSE "closeEvent"
    OBVIOUS
  <1> DEFINE c == [q EXCEPT !.at = at]
  <1>11. request' = [request EXCEPT ![r] = c]
    BY <1>1, <1>4, <1>10 DEF WriteAttempt, GoTo, Inductive, TypeOK
  <1>12. /\ c \in RequestRow /\ c.at = at /\ c.op = q.op /\ c.row = q.row
         /\ c.attempt = q.attempt /\ c.result = q.result
    BY <1>2 DEF RequestRow, Step
  <1>13. Verdict(c) = Verdict(q)
    BY <1>12 DEF Verdict
  <1>14. WebhookSound(c)
    BY <1>2, <1>3, <1>4, <1>10, <1>12, <1>13 DEF WebhookSound
  <1>15. Sound(c)
    BY <1>12, <1>14 DEF Sound
  <1>16. Sound(c)'
    BY <1>9, <1>12, <1>15, SoundKept
  <1> QED BY <1>9, <1>11, <1>12, <1>16, Written

\* A payment and the PAID invoice it is for.
LEMMA BookingKeeps ==
  ASSUME Inductive, NEW k \in PaymentKey, NEW i \in Invoice,
         payment' = [payment EXCEPT ![k] = i],
         invoice' = [invoice EXCEPT ![i].status = "PAID"]
  PROVE  /\ payment' \in [PaymentKey -> Invoice \cup {None}]
         /\ invoice' \in [Invoice -> InvoiceRow]
         /\ payment'[k] = i
         /\ \A l \in PaymentKey \ {k} : payment'[l] = payment[l]
  <1>1. invoice' \in [Invoice -> InvoiceRow]
    BY RowsTyped DEF InvoiceRow, InvoiceStatus
  <1> QED BY <1>1, RowsTyped

\* An invoice that is PAID has a payment after the booking: the one it had, unless that
\* key is booked again for another invoice.
LEMMA PaidStaysBooked ==
  ASSUME Inductive, NEW k \in PaymentKey, NEW i \in Invoice,
         payment[k] = None \/ payment[k] = i,
         payment' = [payment EXCEPT ![k] = i],
         invoice' = [invoice EXCEPT ![i].status = "PAID"]
  PROVE  PaidIsBooked'
  <1> SUFFICES ASSUME NEW j \in Invoice, invoice'[j].status = "PAID"
               PROVE  \E l \in PaymentKey : payment'[l] = j
    BY DEF PaidIsBooked
  <1>1. CASE j = i
    BY <1>1, BookingKeeps
  <1>2. CASE j # i
    <2>1. invoice'[j] = invoice[j]
      BY <1>2, RowsTyped
    <2>2. PICK l \in PaymentKey : payment[l] = j
      BY <2>1, RowsTyped DEF Safe, PaidIsBooked
    <2>3. None \notin Invoice
      BY NoRow
    <2>4. l # k
      BY <1>2, <2>2, <2>3
    <2> QED BY <2>2, <2>4, BookingKeeps
  <1> QED BY <1>1, <1>2

\* The transaction of the webhook: whatever has happened to the invoice since, it is
\* paid by the event that announced the success of its checkout.
LEMMA BookPaymentKeeps ==
  ASSUME Inductive, NEW r \in Request, BookPayment(r)
  PROVE  Inductive'
  <1>1. PICK q : q = request[r]
    OBVIOUS
  <1>2. /\ q.at = "bookPayment" /\ q \in RequestRow /\ Sound(q) /\ WebhookSound(q)
        /\ q.op = "webhook" /\ q.row \in ProviderEvent /\ notice[q.row] # NoNotice
        /\ q.attempt # None =>
             /\ q.attempt = notice[q.row].attempt
             /\ q.attempt \in Attempt /\ attempt[q.attempt] # NoAttempt
    BY <1>1, WebhookKnows DEF BookPayment
  <1>3. /\ q.attempt # None /\ q.result = Verdict(q) /\ q.result = "ACCEPTED"
        /\ notice[q.row].status = "SUCCESSFUL"
    BY <1>2 DEF WebhookSound, Verdict
  <1>4. notice[q.row].amount # "other"
    <2>1. notice[q.row].amount = "other" => Verdict(q) = "REJECTED"
      BY <1>3 DEF Verdict
    <2> QED BY <1>3, <2>1
  <1>5. PICK a \in Attempt, e \in ProviderEvent : a = q.attempt /\ e = q.row
    BY <1>2, <1>3
  <1>6. PICK i \in Invoice : i = attempt[a].invoice /\ i = checkout[a].invoice
    BY <1>2, <1>3, <1>5, RowsTyped DEF RowsSound
  <1>7. checkout[a] = [status |-> "SUCCESSFUL", invoice |-> i]
    <2>1. checkout[a].status = "SUCCESSFUL"
      BY <1>2, <1>3, <1>5, RowsTyped DEF RowsSound
    <2> QED BY <1>6, <2>1, RowsTyped DEF Checkout
  <1>8. notice[e].attempt = a /\ notice[e].status = "SUCCESSFUL" /\ notice[e].status = "SUCCESSFUL" /\ notice[e].amount # "other"
    BY <1>2, <1>3, <1>4, <1>5
  <1>9. /\ payment' = [payment EXCEPT ![e] = i]
        /\ invoice' = [invoice EXCEPT ![i].status = "PAID"]
        /\ attempt' = [attempt EXCEPT ![a].status = "SUCCESSFUL", ![a].payment = e]
        /\ UNCHANGED <<subscription, running, providerEvent, checkout, notice, acknowledged>>
    BY <1>1, <1>5, <1>6 DEF BookPayment, provider
  <1>10. e \in PaymentKey /\ None \notin Invoice
    BY NoRow DEF PaymentKey
  <1>11. payment[e] = None \/ payment[e] = i
    <2>1. payment[e] # None => checkout[a] = [status |-> "SUCCESSFUL", invoice |-> payment[e]]
      BY <1>8, RowsTyped DEF Safe, BookedFromNotice
    <2>2. payment[e] # None => checkout[a].invoice = payment[e]
      BY <2>1
    <2> QED BY <1>6, <2>2
  <1>12. /\ payment' \in [PaymentKey -> Invoice \cup {None}]
         /\ invoice' \in [Invoice -> InvoiceRow]
         /\ payment'[e] = i
         /\ \A l \in PaymentKey \ {e} : payment'[l] = payment[l]
    BY <1>9, <1>10, BookingKeeps
  <1>13. /\ attempt' \in [Attempt -> AttemptRow]
         /\ attempt'[a].status = "SUCCESSFUL" /\ attempt'[a].invoice = i
         /\ \A b \in Attempt \ {a} : attempt'[b] = attempt[b]
    BY <1>6, <1>9, RowsTyped DEF AttemptRow, PaymentStatus
  <1>14. attempt'[a] # NoAttempt /\ checkout[a] # NoCheckout
    BY <1>7, <1>13 DEF NoAttempt, NoCheckout
  <1>15. Keeps
    BY <1>6, <1>9, <1>10, <1>12, <1>13, <1>14, RowsTyped DEF Keeps, RowsSound
  <1>16. RowsTypeOK'
    BY <1>9, <1>12, <1>13, RowsTyped DEF RowsTypeOK
  <1>17. RowsSound'
    BY <1>6, <1>9, <1>13, <1>14, RowsTyped DEF RowsSound
  <1>18. Safe'
    <2>1. PaidIsBooked'
      BY <1>9, <1>10, <1>11, PaidStaysBooked
    <2>2. BookedFromNotice'
      BY <1>7, <1>8, <1>9, <1>12, RowsTyped DEF Safe, BookedFromNotice, PaymentKey
    <2>3. AcceptedIsBooked'
      BY <1>9, <1>10, <1>12, RowsTyped DEF Safe, AcceptedIsBooked, PaymentKey
    <2> QED BY <2>1, <2>2, <2>3 DEF Safe
  <1> DEFINE c == [q EXCEPT !.at = "closeEvent"]
  <1>19. request' = [request EXCEPT ![r] = c]
    BY <1>1 DEF BookPayment, GoTo, Inductive, TypeOK
  <1>20. /\ c \in RequestRow /\ c.at = "closeEvent" /\ c.op = q.op /\ c.row = q.row
         /\ c.attempt = q.attempt /\ c.result = q.result
    BY <1>2 DEF RequestRow, Step
  <1>21. Sound(q)'
    BY <1>2, <1>15, SoundKept
  <1>22. payment'[c.row] # None
    BY <1>5, <1>10, <1>12, <1>20
  <1>23. WebhookSound(c)'
    BY <1>2, <1>20, <1>21, <1>22 DEF Sound, WebhookSound, Verdict
  <1>24. Sound(c)'
    BY <1>20, <1>23 DEF Sound
  <1> QED BY <1>15, <1>16, <1>17, <1>18, <1>19, <1>20, <1>24, Written

\* A manual payment: a new key for the invoice that was payable when it was checked.
LEMMA BookManualKeeps ==
  ASSUME Inductive, NEW r \in Request, BookManual(r)
  PROVE  Inductive'
  <1> USE DEF BookManual, provider
  <1>1. PICK i \in Invoice : i = request[r].invoice
    BY InFlightSound DEF Sound
  <1>2. CASE UNCHANGED <<invoice, payment>> /\ GoTo(r, "idle")
    BY <1>2, Still, WentOn DEF Plain, tenantRows
  <1>3. ASSUME NEW k \in Proof, payment[k] = None,
               payment' = [payment EXCEPT ![k] = i],
               invoice' = [invoice EXCEPT ![i].status = "PAID"],
               GoTo(r, "countOutstanding")
        PROVE  Inductive'
    <2>1. k \in PaymentKey /\ k \notin ProviderEvent /\ None \notin Invoice
      BY NoRow, DistinctKeys DEF PaymentKey
    <2>2. /\ payment' \in [PaymentKey -> Invoice \cup {None}]
          /\ invoice' \in [Invoice -> InvoiceRow]
          /\ payment'[k] = i
          /\ \A l \in PaymentKey \ {k} : payment'[l] = payment[l]
      BY <1>3, <2>1, BookingKeeps
    <2>3. Keeps
      BY <1>3, <2>1, <2>2 DEF Keeps
    <2>4. RowsTypeOK'
      BY <2>2, RowsTyped DEF RowsTypeOK
    <2>5. RowsSound'
      BY RowsTyped DEF RowsSound
    <2>6. PaidIsBooked'
      BY <1>3, <2>1, PaidStaysBooked
    <2>7. BookedFromNotice' /\ AcceptedIsBooked'
      BY <2>1, <2>2, RowsTyped DEF Safe, BookedFromNotice, AcceptedIsBooked, PaymentKey
    <2> QED BY <1>3, <2>3, <2>4, <2>5, <2>6, <2>7, WentOn DEF Plain, Safe
  <1> QED BY <1>1, <1>2, <1>3

\* Every statement of the payments, and every step of the provider.
LEMMA PaymentNextKeeps ==
  ASSUME Inductive, PaymentNext
  PROVE  Inductive'
  <1>1. ASSUME NEW a \in Attempt, SettleCheckout(a) PROVE Inductive'
    BY <1>1, SettleCheckoutKeeps
  <1>2. ASSUME NEW e \in ProviderEvent, Announce(e) PROVE Inductive'
    BY <1>2, AnnounceKeeps
  <1>3. ASSUME NEW r \in Request, NEW e \in ProviderEvent, ReceiveEvent(r, e)
        PROVE  Inductive'
    BY <1>3, ReceiveEventKeeps
  <1>4. ASSUME NEW r \in Request,
               InitiatePayment(r) \/ InsertAttempt(r) \/ InsertEvent(r) \/ WriteAttempt(r) \/
               BookPayment(r) \/ CloseEvent(r) \/ Answer(r)
        PROVE  Inductive'
    BY <1>4, InitiatePaymentKeeps, InsertAttemptKeeps, InsertEventKeeps, WriteAttemptKeeps,
       BookPaymentKeeps, CloseEventKeeps, AnswerKeeps
  <1>5. ASSUME NEW r \in Request, RecordManualPayment(r) PROVE Inductive'
    <2>1. PICK i \in Invoice : Serve(r, [Call("manual", "bookManual") EXCEPT !.invoice = i])
      BY <1>5 DEF RecordManualPayment
    <2> DEFINE c == [Call("manual", "bookManual") EXCEPT !.invoice = i]
    <2>2. c \in RequestRow /\ Sound(c)
      BY DEF Call, Idle, RequestRow, Step, Operation, Result, Sound, WebhookSound
    <2> QED BY <1>5, <2>1, <2>2, Served DEF RecordManualPayment
  <1>6. ASSUME NEW r \in Request, BookManual(r) PROVE Inductive'
    BY <1>6, BookManualKeeps
  <1> QED BY <1>1, <1>2, <1>3, <1>4, <1>5, <1>6 DEF PaymentNext

-------------------------------------------------------------------------------
(* The theorems.                                                           *)

\* Empty tables and no requests: nothing to violate.
LEMMA InitInductive == Init => Inductive
  <1> SUFFICES ASSUME Init PROVE Inductive
    OBVIOUS
  <1>1. RowsTypeOK
    BY DEF Init, RowsTypeOK, InvoiceRow, AttemptRow, Checkout, Notice, Result,
           NoInvoice, NoAttempt, NoCheckout, NoNotice, Amount, SubscriptionStatus
  <1>2. RowsSound
    BY DEF Init, RowsSound
  <1>3. Safe
    BY DEF Init, Safe, PaidIsBooked, BookedFromNotice, AcceptedIsBooked, NoInvoice, PaymentKey
  <1> QED BY <1>1, <1>2, <1>3, IdleSound DEF Init, Inductive, TypeOK

\* Every step of billing.
LEMMA NextInductive == Inductive /\ [Next]_vars => Inductive'
  <1> SUFFICES ASSUME Inductive, [Next]_vars PROVE Inductive'
    OBVIOUS
  <1>1. CASE SubscriptionNext
    BY <1>1, SubscriptionNextKeeps
  <1>2. CASE InvoiceNext
    BY <1>2, InvoiceNextKeeps
  <1>3. CASE PaymentNext
    BY <1>3, PaymentNextKeeps
  <1>4. ASSUME NEW r \in Request, Crash(r) PROVE Inductive'
    BY <1>4, Still, WentOn DEF Crash, Plain
  <1>5. CASE UNCHANGED vars
    BY <1>5, Still, Unasked DEF vars
  <1> QED BY <1>1, <1>2, <1>3, <1>4, <1>5 DEF Next

\* The strengthened invariant: rows, announcements and requests agree with one another.
THEOREM AlwaysInductive == Spec => []Inductive
  BY InitInductive, NextInductive, PTL DEF Spec

\* Every row, announcement and request keeps its shape, whatever the handlers do.
THEOREM TypeCorrect == Spec => []TypeOK
  <1>1. Inductive => TypeOK
    BY DEF Inductive
  <1> QED BY <1>1, AlwaysInductive, PTL

\* The two payment transactions: an invoice is PAID only on a payment on record, however
\* voids, overdue marks and payments overtake each other.
THEOREM PaidInvoicesAreBooked == Spec => []PaidIsBooked
  <1>1. Inductive => PaidIsBooked
    BY DEF Inductive, Safe
  <1> QED BY <1>1, AlwaysInductive, PTL

\* processPaymentProviderEvent: a payment it books is for the invoice of a checkout that
\* succeeded, announced as such and with no other amount, in whatever order events are delivered.
THEOREM BookingsAreAnnounced == Spec => []BookedFromNotice
  <1>1. Inductive => BookedFromNotice
    BY DEF Inductive, Safe
  <1> QED BY <1>1, AlwaysInductive, PTL

\* processPaymentProviderEvent: an event recorded as an ACCEPTED success has its payment,
\* wherever the request that processed it died.
THEOREM AcceptedEventsAreBooked == Spec => []AcceptedIsBooked
  <1>1. Inductive => AcceptedIsBooked
    BY DEF Inductive, Safe
  <1> QED BY <1>1, AlwaysInductive, PTL

================================================================================
