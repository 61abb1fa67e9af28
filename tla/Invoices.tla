------------------------------- MODULE Invoices -------------------------------
(***************************************************************************)
(* invoice-repository.ts and the recurring job around it: an invoice per   *)
(* billing period, overdue invoices, void and reissue.  Amounts, numbers   *)
(* and the PDF are left out: they are fixed before the insert or attached  *)
(* after it, and change no status.                                         *)
(***************************************************************************)
EXTENDS Subscriptions

noInvoiceRow == <<subscription, attempt, payment, providerEvent, provider>>

Issued(p, original) ==
  [status |-> "ISSUED", period |-> p, reissueOf |-> original, age |-> "CURRENT"]

Billed(p) == \E i \in Invoice : invoice[i].period = p

\* Once the set Invoice, the bound of the table, is used up, inserts fail.
Free == {i \in Invoice : invoice[i] = NoInvoice}

\* (variant) runJob without the unique RUNNING row
BeginCycleUnlocked(r) ==
  /\ \E p \in Period : Serve(r, [Call("cycle", "findInvoice") EXCEPT !.period = p])
  /\ running' = TRUE
  /\ UNCHANGED <<invoice, noInvoiceRow>>

\* runJob and runRecurringBillingCycle: the insert of the RUNNING row is refused
\* while there is one; the job then bills the month of its clock.
BeginCycle(r) ==
  /\ ~running
  /\ \E p \in Period : Serve(r, [Call("cycle", "findInvoice") EXCEPT !.period = p])
  /\ running' = TRUE
  /\ UNCHANGED <<invoice, noInvoiceRow>>

CloseRun(r) ==
  /\ request[r].at = "closeRun"
  /\ running' = FALSE
  /\ GoTo(r, "idle")
  /\ UNCHANGED <<invoice, noInvoiceRow>>

-------------------------------------------------------------------------------
\* generateInvoiceForBillingPeriod, called by the job or by the platform's own
\* "generate now": an invoice that is there already is returned as it is.
GenerateInvoice(r) ==
  /\ \E p \in Period :
       /\ ~Billed(p)
       /\ Serve(r, [Call("generate", "insertInvoice") EXCEPT !.period = p])
  /\ UNCHANGED <<running, invoice, noInvoiceRow>>

FindInvoice(r) ==
  LET q == request[r] IN
  /\ q.at = "findInvoice"
  /\ GoTo(r, IF Billed(q.period) THEN "findOverdue" ELSE "insertInvoice")
  /\ UNCHANGED <<running, invoice, noInvoiceRow>>

\* The unique index on the billing period decides between two callers; the loser
\* returns the winner's invoice and leaves the subscription alone.
InsertInvoice(r) ==
  LET q == request[r] IN
  /\ q.at = "insertInvoice"
  /\ \/ /\ ~Billed(q.period)
        /\ \E i \in Free : invoice' = [invoice EXCEPT ![i] = Issued(q.period, None)]
        /\ GoTo(r, "activate")
     \/ /\ Billed(q.period) \/ Free = {}
        /\ UNCHANGED invoice
        /\ GoTo(r, Afterwards(q))
  /\ UNCHANGED <<running, noInvoiceRow>>

-------------------------------------------------------------------------------
\* markOverdueInvoices: one query, then an update by id for each invoice found.
FindOverdue(r) ==
  LET due == {i \in Invoice : invoice[i].status = "ISSUED" /\ invoice[i].age # "CURRENT"} IN
  /\ request[r].at = "findOverdue"
  /\ request' = [request EXCEPT ![r].due = due,
                                ![r].at = IF due = {} THEN "sweep" ELSE "markOverdue"]
  /\ UNCHANGED <<running, invoice, noInvoiceRow>>

MarkOverdue(r) ==
  /\ request[r].at = "markOverdue"
  /\ \E i \in request[r].due :
       /\ invoice' = [invoice EXCEPT ![i].status = "OVERDUE"]
       /\ request' = [request EXCEPT ![r].due = @ \ {i}, ![r].at = "markPastDue"]
  /\ UNCHANGED <<running, noInvoiceRow>>

\* The clock passes the due date, and then the end of the grace period.
InvoiceAges(i) ==
  /\ invoice[i].status \in {"ISSUED", "OVERDUE"}
  /\ invoice[i].age # "LATE"
  /\ invoice' = [invoice EXCEPT ![i].age = IF @ = "CURRENT" THEN "DUE" ELSE "LATE"]
  /\ UNCHANGED <<running, noInvoiceRow, request>>

-------------------------------------------------------------------------------
\* (variant) voidInvoice without its check for PAID
VoidAnyInvoice(r) ==
  /\ \E i \in Invoice :
       /\ invoice[i].status \notin {"NONE", "VOID"}
       /\ Serve(r, [Call("void", "writeVoid") EXCEPT !.invoice = i])
  /\ UNCHANGED <<running, invoice, noInvoiceRow>>

\* voidInvoice: the status is checked, and overwritten by a later statement.
VoidInvoice(r) ==
  /\ \E i \in Invoice :
       /\ invoice[i].status \in {"ISSUED", "OVERDUE"}
       /\ Serve(r, [Call("void", "writeVoid") EXCEPT !.invoice = i])
  /\ UNCHANGED <<running, invoice, noInvoiceRow>>

WriteVoid(r) ==
  /\ request[r].at = "writeVoid"
  /\ invoice' = [invoice EXCEPT ![request[r].invoice].status = "VOID"]
  /\ GoTo(r, "idle")
  /\ UNCHANGED <<running, noInvoiceRow>>

\* reissueInvoice: a VOID invoice is replaced by a new one, outside of the billing
\* periods; the unique link to the original refuses a second replacement.
ReissueInvoice(r) ==
  /\ \E i \in Invoice :
       /\ invoice[i].status = "VOID"
       /\ Serve(r, [Call("reissue", "insertReissue") EXCEPT !.invoice = i])
  /\ UNCHANGED <<running, invoice, noInvoiceRow>>

InsertReissue(r) ==
  LET original == request[r].invoice IN
  /\ request[r].at = "insertReissue"
  /\ IF Free = {} \/ \E i \in Invoice : invoice[i].reissueOf = original
     THEN UNCHANGED invoice
     ELSE \E i \in Free : invoice' = [invoice EXCEPT ![i] = Issued(None, original)]
  /\ GoTo(r, "idle")
  /\ UNCHANGED <<running, noInvoiceRow>>

InvoiceNext ==
  \/ \E r \in Request :
       \/ BeginCycle(r) \/ CloseRun(r) \/ GenerateInvoice(r) \/ FindInvoice(r)
       \/ InsertInvoice(r) \/ FindOverdue(r) \/ MarkOverdue(r)
       \/ VoidInvoice(r) \/ WriteVoid(r) \/ ReissueInvoice(r) \/ InsertReissue(r)
  \/ \E i \in Invoice : InvoiceAges(i)

================================================================================
