----------------------------- MODULE DunningProofs -----------------------------
(***************************************************************************)
(* The recurring job is alone, so what it writes on a subscription is      *)
(* still due.  And with requests served one at a time: suspensions are     *)
(* due, the handlers refine the account, whoever has paid everything is    *)
(* restored, what was acknowledged is booked, and a suspension is lifted   *)
(* for one of four reasons.  All for any number of invoices and requests.  *)
(***************************************************************************)
EXTENDS BillingProofs

\* Request r goes on as c, in the run it was in or in none, and no request that is about
\* to write PAST_DUE finds the subscription changed.
LEMMA RunKept ==
  ASSUME TypeOK, OneRun, running' = running,
         NEW r \in Request, NEW c \in RequestRow, request' = [request EXCEPT ![r] = c],
         c.op = "cycle" => InRun(r),
         c.at \in RunStep => c.op = "cycle",
         c.op \in Operations \cup {"none"},
         c.at = "writeSuspended" => c.op \in {"cycle", "adminSuspend"},
         "adminSuspend" \notin Operations =>
           /\ c.at = "writePastDue" => subscription' = "ACTIVE"
           /\ \A s \in Request \ {r} :
                request[s].at = "writePastDue" => subscription' = "ACTIVE"
  PROVE  OneRun'
  <1>1. /\ request'[r] = c
        /\ \A s \in Request \ {r} : request'[s] = request[s]
    BY DEF TypeOK
  <1>2. \A s \in Request : InRun(s)' => InRun(s)
    BY <1>1 DEF InRun
  <1>3. \A s \in Request : InRun(s)' => running'
    BY <1>2 DEF OneRun
  <1>4. \A s, t \in Request : InRun(s)' /\ InRun(t)' => s = t
    BY <1>2 DEF OneRun
  <1>5. ASSUME NEW s \in Request
        PROVE  /\ request'[s].at \in RunStep => InRun(s)'
               /\ request'[s].op \in Operations \cup {"none"}
               /\ request'[s].at = "writeSuspended" => InRun(s)' \/ request'[s].op = "adminSuspend"
               /\ request'[s].at = "writePastDue" /\ "adminSuspend" \notin Operations =>
                    subscription' = "ACTIVE"
    BY <1>1 DEF OneRun, InRun
  <1> QED BY <1>3, <1>4, <1>5 DEF OneRun

\* The same for a request that goes on without a change of the subscription.
LEMMA RunWentOn ==
  ASSUME TypeOK, OneRun, running' = running, subscription' = subscription,
         NEW r \in Request, NEW at \in Step, GoTo(r, at),
         at \in RunStep => InRun(r),
         at = "writeSuspended" => InRun(r),
         at = "writePastDue" => subscription = "ACTIVE"
  PROVE  OneRun'
  <1>1. PICK q \in RequestRow : q = request[r]
    BY DEF TypeOK
  <1>2. CASE at = "idle"
    <2>1. request' = [request EXCEPT ![r] = Idle]
      BY <1>2 DEF GoTo
    <2>2. Idle.op = "none" /\ Idle.at = "idle"
      BY DEF Idle
    <2> QED BY <2>1, <2>2, IdleSound, RunKept DEF RunStep, OneRun
  <1>3. CASE at # "idle"
    <2> DEFINE c == [q EXCEPT !.at = at]
    <2>1. request' = [request EXCEPT ![r] = c]
      BY <1>1, <1>3 DEF GoTo, TypeOK
    <2>2. c \in RequestRow /\ c.at = at /\ c.op = q.op
      BY DEF RequestRow
    <2> QED BY <1>1, <2>1, <2>2, RunKept DEF InRun, OneRun
  <1> QED BY <1>2, <1>3

\* A handler starts, and it is not the job.
LEMMA RunServed ==
  ASSUME TypeOK, OneRun, running' = running, subscription' = subscription,
         NEW r \in Request, NEW call \in RequestRow, Serve(r, call), call.op # "cycle",
         call.at \notin RunStep \cup {"writePastDue"},
         call.at = "writeSuspended" => call.op = "adminSuspend"
  PROVE  OneRun'
  BY RunKept DEF Serve, OneRun, RunStep

-------------------------------------------------------------------------------
(* The statements.                                                         *)

\* Where a request goes on after the subscription is settled: back to its own run.
LEMMA AfterwardsRuns ==
  ASSUME NEW r \in Request, NEW at, at = Afterwards(request[r])
  PROVE  /\ at \in Step /\ at # "writeSuspended" /\ at # "writePastDue"
         /\ at \in RunStep => InRun(r)
  BY DEF Afterwards, Step, RunStep, InRun

\* A write of ACTIVE does not harm the run: it is what the run has read.
LEMMA WriteActiveRuns ==
  ASSUME TypeOK, OneRun, NEW r \in Request, WriteActive(r)
  PROVE  OneRun'
  <1>1. PICK at : at = Afterwards(request[r])
    OBVIOUS
  <1>2. PICK q \in RequestRow : q = request[r]
    BY DEF TypeOK
  <1>3. subscription' = "ACTIVE" /\ running' = running /\ GoTo(r, at)
    BY <1>1 DEF WriteActive, otherRows
  <1>4. CASE at = "idle"
    <2>1. request' = [request EXCEPT ![r] = Idle]
      BY <1>3, <1>4 DEF GoTo
    <2>2. Idle.op = "none" /\ Idle.at = "idle"
      BY DEF Idle
    <2> QED BY <1>3, <2>1, <2>2, IdleSound, RunKept DEF RunStep
  <1>5. CASE at # "idle"
    <2> DEFINE c == [q EXCEPT !.at = at]
    <2>1. request' = [request EXCEPT ![r] = c]
      BY <1>2, <1>3, <1>5 DEF GoTo, TypeOK
    <2>2. c \in RequestRow /\ c.at = at /\ c.op = q.op
      BY <1>1, AfterwardsRuns DEF RequestRow
    <2> QED BY <1>1, <1>2, <1>3, <2>1, <2>2, AfterwardsRuns, RunKept DEF InRun, OneRun
  <1> QED BY <1>4, <1>5

\* A write of PAST_DUE or SUSPENDED: the job's, and then nobody else is about to write
\* PAST_DUE, or the administrator's, and then nothing is claimed.
LEMMA RunWrites ==
  ASSUME TypeOK, OneRun, NEW r \in Request, WritePastDue(r) \/ WriteSuspended(r)
  PROVE  OneRun'
  <1>1. PICK q \in RequestRow : q = request[r]
    BY DEF TypeOK
  <1>2. q.op = "cycle" \/ q.op = "adminSuspend"
    BY <1>1 DEF WritePastDue, WriteSuspended, OneRun, RunStep, InRun
  <1>3. PICK at \in {"sweep", "markOverdue", "closeRun", "idle"} :
          /\ GoTo(r, at) /\ running' = running
          /\ at # "idle" => q.op = "cycle"
    <2>1. CASE WritePastDue(r)
      <3>1. q.op = "cycle"
        BY <1>1, <2>1 DEF WritePastDue, OneRun, RunStep, InRun
      <3>2. NextOverdue(request[r]) \in {"sweep", "markOverdue"}
        BY DEF NextOverdue
      <3> QED BY <2>1, <3>1, <3>2 DEF WritePastDue, otherRows
    <2>2. CASE WriteSuspended(r)
      BY <1>1, <2>2 DEF WriteSuspended, otherRows
    <2> QED BY <2>1, <2>2
  <1>4. ASSUME "adminSuspend" \notin Operations, NEW s \in Request \ {r},
               request[s].at = "writePastDue"
        PROVE  FALSE
    <2>1. InRun(s)
      BY <1>4 DEF OneRun, RunStep
    <2>2. q.op = "cycle"
      BY <1>1, <1>2, <1>4 DEF OneRun
    <2> QED BY <1>1, <1>4, <2>1, <2>2 DEF OneRun, InRun
  <1>5. CASE at = "idle"
    <2>1. request' = [request EXCEPT ![r] = Idle]
      BY <1>3, <1>5 DEF GoTo
    <2>2. Idle.op = "none" /\ Idle.at = "idle"
      BY DEF Idle
    <2> QED BY <1>3, <1>4, <2>1, <2>2, IdleSound, RunKept DEF RunStep
  <1>6. CASE at # "idle"
    <2> DEFINE c == [q EXCEPT !.at = at]
    <2>1. request' = [request EXCEPT ![r] = c]
      BY <1>1, <1>3, <1>6 DEF GoTo, TypeOK
    <2>2. c \in RequestRow /\ c.at = at /\ c.op = q.op
      BY DEF RequestRow, Step
    <2> QED BY <1>1, <1>3, <1>4, <1>6, <2>1, <2>2, RunKept DEF InRun, OneRun
  <1> QED BY <1>5, <1>6

\* Every statement of the subscription.
LEMMA SubscriptionNextRuns ==
  ASSUME TypeOK, OneRun, SubscriptionNext
  PROVE  OneRun'
  <1>1. PICK r \in Request :
          \/ ActivateSubscription(r) \/ CountOutstanding(r) \/ RestoreSubscription(r)
          \/ WriteActive(r) \/ MarkTenantPastDue(r) \/ WritePastDue(r)
          \/ SweepSuspensions(r) \/ SuspendSubscription(r) \/ WriteSuspended(r)
          \/ AdminSuspend(r) \/ AdminRestore(r)
    BY DEF SubscriptionNext
  <1>2. CASE ActivateSubscription(r) \/ CountOutstanding(r) \/ RestoreSubscription(r)
    <2>1. PICK at : /\ GoTo(r, at) /\ subscription' = subscription /\ running' = running
                    /\ at \in {"writeActive", "restore"} \/ at = Afterwards(request[r])
      BY <1>2 DEF ActivateSubscription, CountOutstanding, RestoreSubscription, otherRows
    <2> QED BY <2>1, AfterwardsRuns, RunWentOn DEF Step, RunStep
  <1>3. CASE MarkTenantPastDue(r)
    <2>1. InRun(r)
      BY <1>3 DEF MarkTenantPastDue, OneRun, RunStep
    <2>2. PICK at \in {"writePastDue", "sweep", "markOverdue"} :
            /\ GoTo(r, at) /\ subscription' = subscription /\ running' = running
            /\ at = "writePastDue" => subscription = "ACTIVE"
      BY <1>3 DEF MarkTenantPastDue, NextOverdue, otherRows
    <2> QED BY <2>1, <2>2, RunWentOn DEF Step
  <1>4. CASE SweepSuspensions(r) \/ SuspendSubscription(r)
    <2>1. InRun(r)
      BY <1>4 DEF SweepSuspensions, SuspendSubscription, OneRun, RunStep
    <2>2. PICK at \in {"suspend", "writeSuspended", "closeRun"} :
            GoTo(r, at) /\ subscription' = subscription /\ running' = running
      BY <1>4 DEF SweepSuspensions, SuspendSubscription, otherRows
    <2> QED BY <2>1, <2>2, RunWentOn DEF Step
  <1>5. CASE AdminSuspend(r) \/ AdminRestore(r)
    <2>1. PICK op \in {"adminSuspend", "adminRestore"}, at \in {"writeSuspended", "writeActive"} :
            /\ Serve(r, Call(op, at)) /\ subscription' = subscription /\ running' = running
            /\ at = "writeSuspended" => op = "adminSuspend"
      BY <1>5 DEF AdminSuspend, AdminRestore, otherRows
    <2>2. Call(op, at) \in RequestRow /\ Call(op, at).op = op /\ Call(op, at).at = at
      BY DEF Call, Idle, RequestRow, Step, Operation, Result
    <2> QED BY <2>1, <2>2, RunServed DEF RunStep
  <1> QED BY <1>1, <1>2, <1>3, <1>4, <1>5, WriteActiveRuns, RunWrites

\* The insert of the RUNNING row: there was none, so there was no run.
LEMMA BeginCycleRuns ==
  ASSUME TypeOK, OneRun, NEW r \in Request, BeginCycle(r)
  PROVE  OneRun'
  <1>1. PICK p \in Period : Serve(r, [Call("cycle", "findInvoice") EXCEPT !.period = p])
    BY DEF BeginCycle
  <1> DEFINE c == [Call("cycle", "findInvoice") EXCEPT !.period = p]
  <1>2. /\ c.op = "cycle" /\ c.at = "findInvoice" /\ c.op \in Operations
        /\ request'[r] = c /\ \A s \in Request \ {r} : request'[s] = request[s]
    BY <1>1 DEF Serve, Call, Idle, TypeOK
  <1>3. running' = TRUE /\ subscription' = subscription /\ \A s \in Request : ~InRun(s)
    BY DEF BeginCycle, noInvoiceRow, OneRun
  <1>4. \A s \in Request : InRun(s)' => s = r
    BY <1>2, <1>3 DEF InRun
  <1>5. ASSUME NEW s \in Request
        PROVE  /\ request'[s].at \in RunStep => InRun(s)'
               /\ request'[s].op \in Operations \cup {"none"}
               /\ request'[s].at = "writeSuspended" => InRun(s)' \/ request'[s].op = "adminSuspend"
               /\ request'[s].at = "writePastDue" /\ "adminSuspend" \notin Operations =>
                    subscription' = "ACTIVE"
    BY <1>2, <1>3 DEF OneRun, InRun
  <1> QED BY <1>3, <1>4, <1>5 DEF OneRun

\* The RUNNING row is closed by the run it stands for.
LEMMA CloseRunRuns ==
  ASSUME TypeOK, OneRun, NEW r \in Request, CloseRun(r)
  PROVE  OneRun'
  <1>1. InRun(r) /\ subscription' = subscription
    BY DEF CloseRun, OneRun, RunStep, noInvoiceRow
  <1>2. request'[r] = Idle /\ \A s \in Request \ {r} : request'[s] = request[s]
    BY DEF CloseRun, GoTo, TypeOK
  <1>3. \A s \in Request : ~InRun(s)'
    <2>1. Idle.op = "none"
      BY DEF Idle
    <2> QED BY <1>1, <1>2, <2>1 DEF OneRun, InRun
  <1>4. ASSUME NEW s \in Request
        PROVE  /\ request'[s].at \notin RunStep
               /\ request'[s].op \in Operations \cup {"none"}
               /\ request'[s].at = "writeSuspended" => request'[s].op = "adminSuspend"
    <2>1. CASE s = r
      BY <1>2, <2>1 DEF Idle, RunStep
    <2>2. CASE s # r
      BY <1>1, <1>2, <2>2 DEF OneRun, InRun
    <2> QED BY <2>1, <2>2
  <1> QED BY <1>3, <1>4 DEF OneRun, RunStep

\* The other statements of the job, and the handlers of invoices.
LEMMA InvoiceNextRuns ==
  ASSUME TypeOK, OneRun, InvoiceNext
  PROVE  OneRun'
  <1> USE DEF noInvoiceRow
  <1>1. ASSUME NEW r \in Request, BeginCycle(r) \/ CloseRun(r) PROVE OneRun'
    BY <1>1, BeginCycleRuns, CloseRunRuns
  <1>2. ASSUME NEW r \in Request, FindInvoice(r) PROVE OneRun'
    <2>1. InRun(r)
      BY <1>2 DEF FindInvoice, OneRun, RunStep
    <2>2. PICK at \in {"findOverdue", "insertInvoice"} : GoTo(r, at)
      BY <1>2 DEF FindInvoice
    <2> QED BY <1>2, <2>1, <2>2, RunWentOn DEF FindInvoice, Step
  <1>3. ASSUME NEW r \in Request, InsertInvoice(r) PROVE OneRun'
    <2>1. PICK at : GoTo(r, at) /\ (at = "activate" \/ at = Afterwards(request[r]))
      BY <1>3 DEF InsertInvoice
    <2> QED BY <1>3, <2>1, AfterwardsRuns, RunWentOn DEF InsertInvoice, Step, RunStep
  <1>4. ASSUME NEW r \in Request, FindOverdue(r) \/ MarkOverdue(r) PROVE OneRun'
    <2>1. PICK q \in RequestRow : q = request[r]
      BY DEF TypeOK
    <2>2. q.op = "cycle"
      BY <1>4, <2>1 DEF FindOverdue, MarkOverdue, OneRun, RunStep, InRun
    <2>3. PICK d \in SUBSET Invoice, at \in {"sweep", "markOverdue", "markPastDue"} :
            request' = [request EXCEPT ![r].due = d, ![r].at = at]
      <3>1. CASE FindOverdue(r)
        BY <3>1 DEF FindOverdue
      <3>2. CASE MarkOverdue(r)
        <4>1. PICK i \in q.due :
                request' = [request EXCEPT ![r].due = @ \ {i}, ![r].at = "markPastDue"]
          BY <2>1, <3>2 DEF MarkOverdue
        <4>2. q.due \ {i} \in SUBSET Invoice
          BY DEF RequestRow
        <4>3. request' = [request EXCEPT ![r].due = q.due \ {i}, ![r].at = "markPastDue"]
          BY <2>1, <4>1 DEF TypeOK
        <4> QED BY <4>2, <4>3
      <3> QED BY <1>4, <3>1, <3>2
    <2> DEFINE c == [q EXCEPT !.due = d, !.at = at]
    <2>4. request' = [request EXCEPT ![r] = c]
      BY <2>1, <2>3 DEF TypeOK
    <2>5. c \in RequestRow /\ c.at = at /\ c.op = q.op
      BY DEF RequestRow, Step
    <2>6. running' = running /\ subscription' = subscription
      BY <1>4 DEF FindOverdue, MarkOverdue
    <2> QED BY <2>1, <2>2, <2>4, <2>5, <2>6, RunKept DEF InRun, OneRun
  <1>5. ASSUME NEW r \in Request, GenerateInvoice(r) PROVE OneRun'
    <2>1. PICK p \in Period : Serve(r, [Call("generate", "insertInvoice") EXCEPT !.period = p])
      BY <1>5 DEF GenerateInvoice
    <2> DEFINE c == [Call("generate", "insertInvoice") EXCEPT !.period = p]
    <2>2. c \in RequestRow /\ c.op = "generate" /\ c.at = "insertInvoice"
      BY DEF Call, Idle, RequestRow, Step, Operation, Result
    <2> QED BY <1>5, <2>1, <2>2, RunServed DEF GenerateInvoice, RunStep
  <1>6. ASSUME NEW r \in Request, VoidInvoice(r) \/ ReissueInvoice(r) PROVE OneRun'
    <2>1. PICK op \in {"void", "reissue"}, at \in {"writeVoid", "insertReissue"}, i \in Invoice :
            Serve(r, [Call(op, at) EXCEPT !.invoice = i])
      BY <1>6 DEF VoidInvoice, ReissueInvoice
    <2> DEFINE c == [Call(op, at) EXCEPT !.invoice = i]
    <2>2. c \in RequestRow /\ c.op = op /\ c.at = at
      BY DEF Call, Idle, RequestRow, Step, Operation, Result
    <2> QED BY <1>6, <2>1, <2>2, RunServed DEF VoidInvoice, ReissueInvoice, RunStep
  <1>7. ASSUME NEW r \in Request, WriteVoid(r) \/ InsertReissue(r) PROVE OneRun'
    <2>1. GoTo(r, "idle")
      BY <1>7 DEF WriteVoid, InsertReissue
    <2> QED BY <1>7, <2>1, RunWentOn DEF WriteVoid, InsertReissue, Step, RunStep
  <1>8. ASSUME NEW i \in Invoice, InvoiceAges(i) PROVE OneRun'
    BY <1>8 DEF InvoiceAges, OneRun, InRun
  <1> QED BY <1>1, <1>2, <1>3, <1>4, <1>5, <1>6, <1>7, <1>8 DEF InvoiceNext

\* The payments leave the job and the subscription alone.
LEMMA PaymentNextRuns ==
  ASSUME TypeOK, OneRun, PaymentNext
  PROVE  OneRun' /\ UNCHANGED subscription
  <1> USE DEF billingRows, tenantRows, provider
  <1>1. ASSUME UNCHANGED <<request, running, subscription>> PROVE OneRun'
    BY <1>1 DEF OneRun, InRun
  <1>2. ASSUME NEW a \in Attempt, SettleCheckout(a) PROVE OneRun' /\ UNCHANGED subscription
    BY <1>1, <1>2 DEF SettleCheckout
  <1>3. ASSUME NEW e \in ProviderEvent, Announce(e) PROVE OneRun' /\ UNCHANGED subscription
    BY <1>1, <1>3 DEF Announce
  <1>4. ASSUME NEW r \in Request, InitiatePayment(r) PROVE OneRun' /\ UNCHANGED subscription
    <2>1. PICK i \in Invoice, a \in Attempt :
            Serve(r, [Call("initiate", "insertAttempt") EXCEPT !.invoice = i, !.attempt = a])
      BY <1>4 DEF InitiatePayment
    <2> DEFINE c == [Call("initiate", "insertAttempt") EXCEPT !.invoice = i, !.attempt = a]
    <2>2. c \in RequestRow /\ c.op = "initiate" /\ c.at = "insertAttempt"
      BY DEF Call, Idle, RequestRow, Step, Operation, Result
    <2> QED BY <1>4, <2>1, <2>2, RunServed DEF InitiatePayment, RunStep
  <1>5. ASSUME NEW r \in Request, NEW e \in ProviderEvent, ReceiveEvent(r, e)
        PROVE  OneRun' /\ UNCHANGED subscription
    <2>0. PICK at \in {"insertEvent", "answer"} : \E a :
            Serve(r, [Call("webhook", at) EXCEPT !.row = e, !.attempt = a])
      BY <1>5 DEF ReceiveEvent
    <2>1. PICK a : Serve(r, [Call("webhook", at) EXCEPT !.row = e, !.attempt = a])
      BY <2>0
    <2> DEFINE c == [Call("webhook", at) EXCEPT !.row = e, !.attempt = a]
    <2>2. c.op = "webhook" /\ c.at = at /\ c.op \in Operations
      BY <2>1 DEF Call, Idle, Serve
    <2>3. request'[r] = c /\ \A s \in Request \ {r} : request'[s] = request[s]
      BY <2>1 DEF Serve, TypeOK
    <2>4. running' = running /\ subscription' = subscription
      BY <1>5 DEF ReceiveEvent
    <2>5. \A s \in Request : InRun(s)' => InRun(s)
      BY <2>2, <2>3 DEF InRun
    <2>6. ASSUME NEW s \in Request
          PROVE  /\ request'[s].at \in RunStep => InRun(s)'
                 /\ request'[s].op \in Operations \cup {"none"}
                 /\ request'[s].at = "writeSuspended" => InRun(s)' \/ request'[s].op = "adminSuspend"
                 /\ request'[s].at = "writePastDue" /\ "adminSuspend" \notin Operations =>
                      subscription' = "ACTIVE"
      BY <2>2, <2>3, <2>4 DEF OneRun, InRun, RunStep
    <2> QED BY <2>4, <2>5, <2>6 DEF OneRun
  <1>6. ASSUME NEW r \in Request, RecordManualPayment(r) PROVE OneRun' /\ UNCHANGED subscription
    <2>1. PICK i \in Invoice : Serve(r, [Call("manual", "bookManual") EXCEPT !.invoice = i])
      BY <1>6 DEF RecordManualPayment
    <2> DEFINE c == [Call("manual", "bookManual") EXCEPT !.invoice = i]
    <2>2. c \in RequestRow /\ c.op = "manual" /\ c.at = "bookManual"
      BY DEF Call, Idle, RequestRow, Step, Operation, Result
    <2> QED BY <1>6, <2>1, <2>2, RunServed DEF RecordManualPayment, RunStep
  <1>7. ASSUME NEW r \in Request, InsertEvent(r) PROVE OneRun' /\ UNCHANGED subscription
    <2>1. PICK q \in RequestRow : q = request[r]
      BY DEF TypeOK
    <2>2. CASE GoTo(r, "idle")
      BY <1>7, <2>2, RunWentOn DEF InsertEvent, Step, RunStep
    <2>3. CASE ~GoTo(r, "idle")
      <3>1. Verdict(q) \in {"ERROR", "REJECTED", "ACCEPTED"}
        BY DEF Verdict
      <3>2. PICK v \in {"ERROR", "REJECTED", "ACCEPTED"}, at \in {"writeAttempt", "closeEvent"} :
              request' = [request EXCEPT ![r].result = v, ![r].at = at]
        BY <1>7, <2>1, <2>3, <3>1 DEF InsertEvent
      <3> DEFINE c == [q EXCEPT !.result = v, !.at = at]
      <3>3. request' = [request EXCEPT ![r] = c]
        BY <2>1, <3>2 DEF TypeOK
      <3>4. c \in RequestRow /\ c.at = at /\ c.op = q.op
        BY DEF RequestRow, Step, Result
      <3> QED BY <1>7, <2>1, <3>3, <3>4, RunKept DEF InsertEvent, InRun, OneRun, RunStep
    <2> QED BY <2>2, <2>3
  <1>8. ASSUME NEW r \in Request,
               InsertAttempt(r) \/ WriteAttempt(r) \/ BookPayment(r) \/ CloseEvent(r) \/
               Answer(r) \/ BookManual(r)
        PROVE  OneRun' /\ UNCHANGED subscription
    <2>1. PICK at \in {"idle", "bookPayment", "closeEvent", "countOutstanding", "answer"} :
            GoTo(r, at) /\ running' = running /\ subscription' = subscription
      BY <1>8 DEF InsertAttempt, WriteAttempt, BookPayment, CloseEvent, Answer, BookManual
    <2> QED BY <2>1, RunWentOn DEF Step, RunStep
  <1> QED BY <1>2, <1>3, <1>4, <1>5, <1>6, <1>7, <1>8 DEF PaymentNext

-------------------------------------------------------------------------------
(* The theorems.                                                           *)

LEMMA InitOneRun == Init => OneRun
  BY DEF Init, OneRun, InRun, Idle, RunStep

\* Every step of billing leaves the run alone with what it has read.
LEMMA NextOneRun == TypeOK /\ OneRun /\ [Next]_vars => OneRun'
  <1> SUFFICES ASSUME TypeOK, OneRun, [Next]_vars PROVE OneRun'
    OBVIOUS
  <1>1. CASE SubscriptionNext
    BY <1>1, SubscriptionNextRuns
  <1>2. CASE InvoiceNext
    BY <1>2, InvoiceNextRuns
  <1>3. CASE PaymentNext
    BY <1>3, PaymentNextRuns
  <1>4. ASSUME NEW r \in Request, Crash(r) PROVE OneRun'
    BY <1>4, RunWentOn DEF Crash, tenantRows, Step, RunStep
  <1>5. CASE UNCHANGED vars
    BY <1>5 DEF vars, tenantRows, OneRun, InRun
  <1> QED BY <1>1, <1>2, <1>3, <1>4, <1>5 DEF Next

\* runJob: at most one run of the recurring job is in flight, also after runs have died,
\* and every statement of the job is executed by it.
THEOREM RunsAreAlone == Spec => []OneRun
  <1>1. TypeOK /\ OneRun /\ [Next]_vars => OneRun'
    BY NextOneRun
  <1> QED BY <1>1, InitOneRun, TypeCorrect, PTL DEF Spec

\* markTenantPastDue writes what it read some statements ago; without an administrator's
\* suspension in between it still makes only an ACTIVE subscription PAST_DUE.
THEOREM FallsPastDueFromActive == Spec => OnlyActiveFallsPastDue
  <1>1. ASSUME TypeOK, OneRun, Next,
               subscription # "PAST_DUE", subscription' = "PAST_DUE",
               "adminSuspend" \notin Operations
        PROVE  subscription = "ACTIVE"
    <2>1. PICK r \in Request : WritePastDue(r)
      <3>1. CASE SubscriptionNext
        BY <1>1, <3>1 DEF SubscriptionNext, ActivateSubscription, CountOutstanding,
           RestoreSubscription, WriteActive, MarkTenantPastDue, SweepSuspensions,
           SuspendSubscription, WriteSuspended, AdminSuspend, AdminRestore
      <3>2. CASE InvoiceNext
        BY <1>1, <3>2 DEF InvoiceNext, BeginCycle, CloseRun, GenerateInvoice, FindInvoice,
           InsertInvoice, FindOverdue, MarkOverdue, InvoiceAges, VoidInvoice, WriteVoid,
           ReissueInvoice, InsertReissue, noInvoiceRow
      <3>3. CASE PaymentNext
        BY <1>1, <3>3, PaymentNextRuns
      <3>4. ASSUME NEW r \in Request, Crash(r) PROVE FALSE
        BY <1>1, <3>4 DEF Crash, tenantRows
      <3> QED BY <1>1, <3>1, <3>2, <3>3, <3>4 DEF Next
    <2> QED BY <1>1, <2>1 DEF WritePastDue, OneRun
  <1>2. TypeOK /\ OneRun /\ [Next]_vars =>
          [subscription # "PAST_DUE" /\ subscription' = "PAST_DUE" /\ "adminSuspend" \notin Operations
             => subscription = "ACTIVE"]_vars
    BY <1>1
  <1> QED BY <1>2, TypeCorrect, RunsAreAlone, PTL DEF Spec, OnlyActiveFallsPastDue

-------------------------------------------------------------------------------
(* Requests served one at a time.                                          *)

\* An invoice with a checkout has been issued.
CheckoutsBilled ==
  \A a \in Attempt : checkout[a] # NoCheckout => invoice[checkout[a].invoice].status # "NONE"

OthersIdle(r) == \A s \in Request \ {r} : request[s] = Idle

LEMMA AloneInFlight ==
  ASSUME OneAtATime, NEW r \in Request, request[r].at # "idle"
  PROVE  OthersIdle(r) /\ request[r] # Idle
  BY DEF OneAtATime, Alone, OthersIdle, Idle

LEMMA AloneServed ==
  ASSUME Serial, NEW r \in Request, NEW call, Serve(r, call)
  PROVE  OthersIdle(r)
  BY DEF Serve, Quiescent, OthersIdle

\* The only request in flight goes on as c.
LEMMA AloneGoesOn ==
  ASSUME TypeOK, NEW r \in Request, OthersIdle(r), NEW c \in RequestRow,
         request' = [request EXCEPT ![r] = c], Timely(c)', CheckoutsBilled'
  PROVE  OneAtATime'
  <1>1. request'[r] = c /\ \A s \in Request \ {r} : request'[s] = Idle
    BY DEF TypeOK, OthersIdle
  <1>2. Alone'
    BY <1>1 DEF Alone
  <1>3. Timely(Idle)'
    BY DEF Timely, Idle
  <1>4. ASSUME NEW s \in Request PROVE Timely(request[s])'
    <2>1. CASE s = r
      BY <1>1, <2>1 DEF Timely, Payable
    <2>2. CASE s # r
      <3>1. request'[s] = Idle
        BY <1>1, <2>2
      <3> QED BY <3>1 DEF Timely, Idle
    <2> QED BY <2>1, <2>2
  <1> QED BY <1>2, <1>4 DEF OneAtATime, CheckoutsBilled

LEMMA AloneWentOn ==
  ASSUME TypeOK, OneAtATime, NEW r \in Request, request[r].at # "idle",
         NEW q \in RequestRow, q = request[r], NEW at \in Step, GoTo(r, at),
         Timely([q EXCEPT !.at = at])', CheckoutsBilled'
  PROVE  OneAtATime'
  <1>1. CASE at = "idle"
    <2>1. request' = [request EXCEPT ![r] = Idle]
      BY <1>1 DEF GoTo
    <2>2. Timely(Idle)'
      BY DEF Timely, Idle
    <2> QED BY <2>1, <2>2, IdleSound, AloneInFlight, AloneGoesOn
  <1>2. CASE at # "idle"
    <2>1. request' = [request EXCEPT ![r] = [q EXCEPT !.at = at]]
      BY <1>2 DEF GoTo, TypeOK
    <2>2. [q EXCEPT !.at = at] \in RequestRow
      BY DEF RequestRow
    <2> QED BY <2>1, <2>2, AloneInFlight, AloneGoesOn
  <1> QED BY <1>1, <1>2

\* The subscription and the statuses of the invoices stay: nothing has happened to the
\* account.
LEMMA AccountStays ==
  ASSUME UNCHANGED <<subscription, invoice>>
  PROVE  UNCHANGED Account!vars
  BY DEF Account!vars

\* A statement that only reads: the next one finds what this one has found.
LEMMA AloneRead ==
  ASSUME TypeOK, OneAtATime, NEW r \in Request, request[r].at # "idle",
         NEW q \in RequestRow, q = request[r], NEW at \in Step, GoTo(r, at),
         Timely([q EXCEPT !.at = at]), UNCHANGED <<subscription, invoice, checkout>>
  PROVE  OneAtATime' /\ UNCHANGED Account!vars
  <1>1. Timely([q EXCEPT !.at = at])'
    BY DEF Timely, Payable
  <1>2. CheckoutsBilled'
    BY DEF OneAtATime, CheckoutsBilled
  <1> QED BY <1>1, <1>2, AloneWentOn, AccountStays

\* A handler starts, on what it has just read.
LEMMA AloneStarts ==
  ASSUME TypeOK, OneAtATime, Serial, NEW r \in Request, NEW call \in RequestRow,
         Serve(r, call), Timely(call), UNCHANGED <<subscription, invoice, checkout>>
  PROVE  OneAtATime' /\ UNCHANGED Account!vars
  <1>1. Timely(call)'
    BY DEF Timely, Payable
  <1>2. CheckoutsBilled'
    BY DEF OneAtATime, CheckoutsBilled
  <1> QED BY <1>1, <1>2, AloneServed, AloneGoesOn, AccountStays DEF Serve

\* Where a request goes on after the subscription is settled, it relies on nothing.
LEMMA AfterwardsTimely ==
  ASSUME NEW q \in RequestRow, NEW at, at = Afterwards(q)
  PROVE  /\ at \in Step
         /\ Timely([q EXCEPT !.at = at]) /\ Timely([q EXCEPT !.at = at])'
  BY DEF Afterwards, Step, Timely, RequestRow

LEMMA AdminCalled ==
  ASSUME NEW op \in {"adminSuspend", "adminRestore"}, NEW at \in {"writeSuspended", "writeActive"}
  PROVE  Call(op, at) \in RequestRow /\ Call(op, at).op = op /\ Call(op, at).at = at
  BY DEF Call, Idle, RequestRow, Step, Operation, Result

\* The statements of the subscription.
LEMMA SubscriptionAlone ==
  ASSUME TypeOK, OneAtATime, OneRun, Serial, SubscriptionNext
  PROVE  OneAtATime' /\ [Account!Next]_(Account!vars)
  <1>1. PICK r \in Request :
          \/ ActivateSubscription(r) \/ CountOutstanding(r) \/ RestoreSubscription(r)
          \/ WriteActive(r) \/ MarkTenantPastDue(r) \/ WritePastDue(r)
          \/ SweepSuspensions(r) \/ SuspendSubscription(r) \/ WriteSuspended(r)
          \/ AdminSuspend(r) \/ AdminRestore(r)
    BY DEF SubscriptionNext
  <1>2. PICK q \in RequestRow : q = request[r]
    BY DEF TypeOK
  <1>3. Timely(q)
    BY <1>2 DEF OneAtATime
  <1>4. UNCHANGED <<invoice, checkout>>
    BY <1>1 DEF ActivateSubscription, CountOutstanding, RestoreSubscription, WriteActive,
       MarkTenantPastDue, WritePastDue, SweepSuspensions, SuspendSubscription,
       WriteSuspended, AdminSuspend, AdminRestore, otherRows, provider
  <1>5. CheckoutsBilled'
    BY <1>4 DEF OneAtATime, CheckoutsBilled
  <1>0. PICK after \in Step : /\ after = Afterwards(q)
                             /\ Timely([q EXCEPT !.at = after]) /\ Timely([q EXCEPT !.at = after])'
    BY AfterwardsTimely
  <1>6. CASE ActivateSubscription(r) \/ CountOutstanding(r) \/ RestoreSubscription(r)
    <2>1. PICK at \in Step :
            /\ GoTo(r, at) /\ subscription' = subscription /\ q.at # "idle"
            /\ Timely([q EXCEPT !.at = at])
      <3>1. CASE ActivateSubscription(r)
        <4>1. PICK at \in Step : at = IF subscription = "ACTIVE" THEN after ELSE "writeActive"
          BY DEF Step
        <4>2. Timely([q EXCEPT !.at = at])
          BY <1>0, <1>2, <1>3, <3>1, <4>1 DEF ActivateSubscription, Timely, RequestRow
        <4> QED BY <1>0, <1>2, <3>1, <4>1, <4>2 DEF ActivateSubscription
      <3>2. CASE CountOutstanding(r)
        <4>1. PICK at \in Step : GoTo(r, at) /\ at \in {after, "restore"}
          BY <1>0, <1>2, <3>2 DEF CountOutstanding, Step
        <4>2. Timely([q EXCEPT !.at = at])
          BY <1>0, <4>1 DEF Timely, RequestRow
        <4> QED BY <1>2, <3>2, <4>1, <4>2 DEF CountOutstanding
      <3>3. CASE RestoreSubscription(r)
        <4>1. PICK at \in Step : at = IF subscription \in {"SUSPENDED", "PAST_DUE"}
                                      THEN "writeActive" ELSE after
          BY DEF Step
        <4>2. Timely([q EXCEPT !.at = at])
          BY <1>0, <4>1 DEF Timely, RequestRow
        <4> QED BY <1>0, <1>2, <3>3, <4>1, <4>2 DEF RestoreSubscription
      <3> QED BY <1>6, <3>1, <3>2, <3>3
    <2> QED BY <1>2, <1>4, <2>1, AloneRead
  <1>7. CASE WriteActive(r)
    <2>1. GoTo(r, after)
      BY <1>0, <1>2, <1>7 DEF WriteActive
    <2>2. OneAtATime'
      BY <1>0, <1>2, <1>5, <1>7, <2>1, AloneWentOn DEF WriteActive
    <2>3. subscription' = "ACTIVE" /\ UNCHANGED [i \in Invoice |-> invoice[i].status]
      BY <1>4, <1>7 DEF WriteActive
    <2>4. subscription = "PENDING" => \E i \in Invoice : [j \in Invoice |-> invoice[j].status][i] # "NONE"
      BY <1>2, <1>3, <1>7 DEF WriteActive, Timely
    <2>5. CASE subscription = "ACTIVE"
      BY <2>2, <2>3, <2>5 DEF Account!vars
    <2>6. CASE subscription = "PENDING"
      BY <2>2, <2>3, <2>4, <2>6 DEF Account!Next, Account!Activate, Account!Move
    <2>7. CASE subscription \in {"PAST_DUE", "SUSPENDED"}
      BY <2>2, <2>3, <2>7 DEF Account!Next, Account!Lift, Account!Move
    <2> QED BY <2>2, <2>5, <2>6, <2>7 DEF TypeOK, RowsTypeOK, SubscriptionStatus
  <1>8. CASE MarkTenantPastDue(r)
    <2>1. PICK at \in Step : at = IF subscription = "ACTIVE" THEN "writePastDue" ELSE NextOverdue(q)
      BY DEF NextOverdue, Step
    <2>2. Timely([q EXCEPT !.at = at])
      BY <1>2, <1>3, <1>8, <2>1 DEF MarkTenantPastDue, NextOverdue, Timely, RequestRow
    <2> QED BY <1>2, <1>4, <1>8, <2>1, <2>2, AloneRead DEF MarkTenantPastDue
  <1>9. CASE WritePastDue(r)
    <2>1. PICK at \in Step : GoTo(r, at) /\ at = NextOverdue(q)
      BY <1>2, <1>9 DEF WritePastDue, NextOverdue, Step
    <2>2. Timely([q EXCEPT !.at = at])'
      BY <1>2, <1>3, <1>4, <1>9, <2>1 DEF WritePastDue, NextOverdue, Timely, RequestRow
    <2>3. OneAtATime'
      BY <1>2, <1>5, <1>9, <2>1, <2>2, AloneWentOn DEF WritePastDue
    <2>4. subscription = "ACTIVE" /\ subscription' = "PAST_DUE"
      BY <1>2, <1>3, <1>9 DEF WritePastDue, Timely
    <2>5. \E i \in Invoice : [j \in Invoice |-> invoice[j].status][i] = "OVERDUE"
      BY <1>2, <1>3, <1>9 DEF WritePastDue, Timely
    <2>6. UNCHANGED [i \in Invoice |-> invoice[i].status]
      BY <1>4
    <2>7. Account!Warn
      BY <2>4, <2>5, <2>6 DEF Account!Warn, Account!Move
    <2> QED BY <2>2, <2>3, <2>7 DEF Account!Next
  <1>10. CASE SweepSuspensions(r)
    <2>1. PICK at \in {"suspend", "closeRun"} :
            /\ GoTo(r, at)
            /\ at = "suspend" => /\ subscription = "PAST_DUE"
                                 /\ \E i \in Invoice : invoice[i].status = "OVERDUE" /\ invoice[i].age = "LATE"
      BY <1>10 DEF SweepSuspensions
    <2>2. Timely([q EXCEPT !.at = at])
      BY <2>1 DEF Timely, RequestRow
    <2>3. at \in Step
      BY DEF Step
    <2> QED BY <1>2, <1>4, <1>10, <2>1, <2>2, <2>3, AloneRead DEF SweepSuspensions
  <1>11. CASE SuspendSubscription(r)
    <2>1. PICK at \in {"writeSuspended", "closeRun"} : GoTo(r, at)
      BY <1>11 DEF SuspendSubscription
    <2>2. Timely([q EXCEPT !.at = at])
      BY <1>2, <1>3, <1>11 DEF SuspendSubscription, Timely, RequestRow
    <2>3. at \in Step
      BY DEF Step
    <2> QED BY <1>2, <1>4, <1>11, <2>1, <2>2, <2>3, AloneRead DEF SuspendSubscription
  <1>12. CASE WriteSuspended(r)
    <2>1. PICK at \in {"closeRun", "idle"} : GoTo(r, at)
      BY <1>12 DEF WriteSuspended
    <2>2. Timely([q EXCEPT !.at = at])' /\ at \in Step
      BY DEF Timely, RequestRow, Step
    <2>3. OneAtATime'
      BY <1>2, <1>5, <1>12, <2>1, <2>2, AloneWentOn DEF WriteSuspended
    <2>4. subscription = "PAST_DUE" /\ subscription' = "SUSPENDED"
      BY <1>2, <1>3, <1>12 DEF WriteSuspended, Timely
    <2>5. Account!Suspend
      BY <1>4, <2>4 DEF Account!Suspend, Account!Move
    <2> QED BY <2>3, <2>5 DEF Account!Next
  <1>13. CASE AdminSuspend(r) \/ AdminRestore(r)
    <2>1. PICK op \in {"adminSuspend", "adminRestore"}, at \in {"writeSuspended", "writeActive"} :
            /\ Serve(r, Call(op, at)) /\ subscription' = subscription
            /\ at = "writeSuspended" => op = "adminSuspend" /\ subscription = "PAST_DUE"
            /\ at = "writeActive" => subscription # "PENDING"
      BY <1>13 DEF AdminSuspend, AdminRestore
    <2>2. Call(op, at) \in RequestRow /\ Call(op, at).op = op /\ Call(op, at).at = at
      BY AdminCalled
    <2>3. Timely(Call(op, at))
      BY <2>1, <2>2 DEF Timely
    <2> QED BY <1>4, <2>1, <2>2, <2>3, AloneStarts
  <1> QED BY <1>1, <1>6, <1>7, <1>8, <1>9, <1>10, <1>11, <1>12, <1>13

\* Invoices that have been issued stay issued.
LEMMA IssuedStay ==
  ASSUME Inductive, OneAtATime, UNCHANGED checkout,
         \A i \in Invoice : invoice[i].status # "NONE" => invoice'[i].status # "NONE"
  PROVE  CheckoutsBilled'
  BY DEF OneAtATime, CheckoutsBilled, Inductive, RowsSound

\* One invoice gets another row: a step of the account, if the status may change so.
LEMMA BillBecomes ==
  ASSUME Inductive, UNCHANGED subscription, NEW i \in Invoice, NEW row,
         invoice' = [invoice EXCEPT ![i] = row],
         \/ invoice[i].status = "NONE" /\ row.status = "ISSUED"
         \/ invoice[i].status = "ISSUED" /\ row.status = "OVERDUE"
         \/ invoice[i].status \in {"ISSUED", "OVERDUE"} /\ row.status = "VOID"
         \/ invoice[i].status \in {"ISSUED", "OVERDUE", "VOID"} /\ row.status = "PAID"
         \/ invoice[i].status = row.status
  PROVE  [Account!Next]_(Account!vars)
  <1> DEFINE bill == [j \in Invoice |-> invoice[j].status]
  <1>1. /\ invoice'[i] = row /\ bill[i] = invoice[i].status
        /\ bill' = [bill EXCEPT ![i] = row.status]
    BY DEF Inductive, TypeOK, RowsTypeOK
  <1>2. CASE invoice[i].status = row.status
    BY <1>1, <1>2 DEF Account!vars
  <1>3. CASE invoice[i].status # row.status
    <2>1. Account!Charge(i)
      BY <1>1, <1>3 DEF Account!Charge, Account!Become
    <2> QED BY <2>1 DEF Account!Next
  <1> QED BY <1>2, <1>3

\* A status is written on an invoice.
LEMMA StatusWritten ==
  ASSUME Inductive, NEW i \in Invoice, NEW s, invoice' = [invoice EXCEPT ![i].status = s]
  PROVE  /\ invoice' = [invoice EXCEPT ![i] = [invoice[i] EXCEPT !.status = s]]
         /\ [invoice[i] EXCEPT !.status = s].status = s
         /\ invoice'[i].status = s
         /\ \A j \in Invoice \ {i} : invoice'[j] = invoice[j]
  <1>1. invoice[i] \in InvoiceRow
    BY DEF Inductive, TypeOK, RowsTypeOK
  <1> QED BY <1>1 DEF Inductive, TypeOK, RowsTypeOK, InvoiceRow

\* A free row is filled.
LEMMA InvoiceInserted ==
  ASSUME Inductive, OneAtATime, NEW i \in Free, NEW p, NEW o,
         invoice' = [invoice EXCEPT ![i] = Issued(p, o)], UNCHANGED <<subscription, checkout>>
  PROVE  CheckoutsBilled' /\ invoice'[i].status # "NONE" /\ [Account!Next]_(Account!vars)
  <1>1. i \in Invoice /\ invoice[i].status = "NONE" /\ Issued(p, o).status = "ISSUED"
    BY DEF Free, NoInvoice, Issued
  <1>2. invoice'[i] = Issued(p, o) /\ \A j \in Invoice \ {i} : invoice'[j] = invoice[j]
    BY <1>1 DEF Inductive, TypeOK, RowsTypeOK
  <1>3. \A j \in Invoice : invoice[j].status # "NONE" => invoice'[j].status # "NONE"
    BY <1>1, <1>2
  <1>4. PICK row : row = Issued(p, o)
    OBVIOUS
  <1>5. [Account!Next]_(Account!vars)
    BY <1>1, <1>4, BillBecomes
  <1> QED BY <1>1, <1>2, <1>3, <1>5, IssuedStay

\* The invoices and the recurring job.
LEMMA InvoiceAlone ==
  ASSUME Inductive, OneAtATime, Serial, InvoiceNext
  PROVE  OneAtATime' /\ [Account!Next]_(Account!vars)
  <1>0. TypeOK
    BY DEF Inductive
  <1>1. UNCHANGED <<subscription, checkout>>
    BY DEF InvoiceNext, BeginCycle, CloseRun, GenerateInvoice, FindInvoice, InsertInvoice,
       FindOverdue, MarkOverdue, VoidInvoice, WriteVoid, ReissueInvoice, InsertReissue,
       InvoiceAges, noInvoiceRow, provider
  <1>2. ASSUME NEW r \in Request, BeginCycle(r) \/ GenerateInvoice(r)
        PROVE  OneAtATime' /\ [Account!Next]_(Account!vars)
    <2>1. PICK op \in {"cycle", "generate"}, at \in {"findInvoice", "insertInvoice"}, p \in Period :
            Serve(r, [Call(op, at) EXCEPT !.period = p])
      BY <1>2 DEF BeginCycle, GenerateInvoice
    <2> DEFINE c == [Call(op, at) EXCEPT !.period = p]
    <2>2. c \in RequestRow
      BY PeriodCallSound
    <2>3. Timely(c)
      BY DEF Timely, Call, Idle
    <2> QED BY <1>0, <1>1, <1>2, <2>1, <2>2, <2>3, AloneStarts DEF BeginCycle, GenerateInvoice
  <1>3. ASSUME NEW r \in Request, VoidInvoice(r) \/ ReissueInvoice(r)
        PROVE  OneAtATime' /\ [Account!Next]_(Account!vars)
    <2>1. PICK op \in {"void", "reissue"}, at \in {"writeVoid", "insertReissue"}, i \in Invoice :
            /\ Serve(r, [Call(op, at) EXCEPT !.invoice = i])
            /\ at = "writeVoid" => Payable(i)
      BY <1>3 DEF VoidInvoice, ReissueInvoice, Payable
    <2> DEFINE c == [Call(op, at) EXCEPT !.invoice = i]
    <2>2. c \in RequestRow
      BY InvoiceCallSound
    <2>3. Timely(c)
      BY <2>1 DEF Timely, Call, Idle
    <2> QED BY <1>0, <1>1, <1>3, <2>1, <2>2, <2>3, AloneStarts DEF VoidInvoice, ReissueInvoice
  <1>4. ASSUME NEW r \in Request, CloseRun(r) \/ FindInvoice(r)
        PROVE  OneAtATime' /\ [Account!Next]_(Account!vars)
    <2>1. PICK q \in RequestRow : q = request[r]
      BY <1>0 DEF TypeOK
    <2>2. PICK at \in {"idle", "findOverdue", "insertInvoice"} : GoTo(r, at)
      BY <1>4 DEF CloseRun, FindInvoice
    <2>3. at \in Step /\ Timely([q EXCEPT !.at = at])
      BY DEF Step, Timely, RequestRow
    <2> QED BY <1>0, <1>1, <1>4, <2>1, <2>2, <2>3, AloneRead DEF CloseRun, FindInvoice
  <1>5. ASSUME NEW r \in Request, InsertInvoice(r)
        PROVE  OneAtATime' /\ [Account!Next]_(Account!vars)
    <2>1. PICK q \in RequestRow : q = request[r]
      BY <1>0 DEF TypeOK
    <2>2. CASE UNCHANGED invoice /\ GoTo(r, Afterwards(q))
      <3>1. PICK at \in Step : at = Afterwards(q) /\ Timely([q EXCEPT !.at = at])
        BY AfterwardsTimely
      <3> QED BY <1>0, <1>1, <1>5, <2>1, <2>2, <3>1, AloneRead DEF InsertInvoice
    <2>3. CASE ~(UNCHANGED invoice /\ GoTo(r, Afterwards(q)))
      <3>1. PICK i \in Free : invoice' = [invoice EXCEPT ![i] = Issued(q.period, None)]
        BY <1>5, <2>1, <2>3 DEF InsertInvoice
      <3>2. GoTo(r, "activate")
        BY <1>5, <2>1, <2>3 DEF InsertInvoice
      <3>3. CheckoutsBilled' /\ invoice'[i].status # "NONE" /\ [Account!Next]_(Account!vars)
        BY <1>1, <3>1, InvoiceInserted
      <3>4. Timely([q EXCEPT !.at = "activate"])'
        BY <3>3 DEF Timely, RequestRow, Free
      <3>5. "activate" \in Step
        BY DEF Step
      <3> QED BY <1>0, <1>5, <2>1, <3>2, <3>3, <3>4, <3>5, AloneWentOn DEF InsertInvoice
    <2> QED BY <2>2, <2>3
  <1>6. ASSUME NEW r \in Request, FindOverdue(r)
        PROVE  OneAtATime' /\ [Account!Next]_(Account!vars)
    <2>1. PICK q \in RequestRow : q = request[r]
      BY <1>0 DEF TypeOK
    <2>2. PICK d \in SUBSET Invoice, at \in {"sweep", "markOverdue"} :
            /\ request' = [request EXCEPT ![r].due = d, ![r].at = at]
            /\ \A i \in d : invoice[i].status = "ISSUED"
      <3>1. PICK d \in SUBSET Invoice :
              d = {i \in Invoice : invoice[i].status = "ISSUED" /\ invoice[i].age # "CURRENT"}
        OBVIOUS
      <3>2. request' = [request EXCEPT ![r].due = d,
                                       ![r].at = IF d = {} THEN "sweep" ELSE "markOverdue"]
        BY <1>6, <3>1 DEF FindOverdue
      <3>3. PICK at \in {"sweep", "markOverdue"} : at = IF d = {} THEN "sweep" ELSE "markOverdue"
        OBVIOUS
      <3> QED BY <3>1, <3>2, <3>3
    <2> DEFINE c == [q EXCEPT !.due = d, !.at = at]
    <2>3. request' = [request EXCEPT ![r] = c]
      BY <1>0, <2>1, <2>2 DEF TypeOK
    <2>4. c \in RequestRow /\ c.at = at /\ c.due = d
      BY DEF RequestRow, Step
    <2>5. UNCHANGED invoice /\ q.at = "findOverdue"
      BY <1>6, <2>1 DEF FindOverdue
    <2>6. Timely(c)'
      BY <2>2, <2>4, <2>5 DEF Timely
    <2>7. CheckoutsBilled'
      BY <1>1, <2>5, IssuedStay
    <2>8. UNCHANGED Account!vars
      BY <1>1, <2>5, AccountStays
    <2> QED BY <1>0, <2>1, <2>3, <2>4, <2>5, <2>6, <2>7, <2>8, AloneInFlight, AloneGoesOn
  <1>7. ASSUME NEW r \in Request, MarkOverdue(r)
        PROVE  OneAtATime' /\ [Account!Next]_(Account!vars)
    <2>1. PICK q \in RequestRow : q = request[r] /\ Timely(q)
      BY <1>0 DEF TypeOK, OneAtATime
    <2>2. q.at = "markOverdue" /\ q.due \subseteq Invoice
      BY <1>7, <2>1 DEF MarkOverdue, RequestRow
    <2>3. PICK i \in q.due : /\ invoice' = [invoice EXCEPT ![i].status = "OVERDUE"]
                            /\ request' = [request EXCEPT ![r].due = @ \ {i}, ![r].at = "markPastDue"]
      BY <1>7, <2>1 DEF MarkOverdue
    <2> DEFINE c == [q EXCEPT !.due = q.due \ {i}, !.at = "markPastDue"]
    <2>4. request' = [request EXCEPT ![r] = c]
      BY <1>0, <2>1, <2>3 DEF TypeOK
    <2>5. c \in RequestRow /\ c.at = "markPastDue" /\ c.due = q.due \ {i}
      BY DEF RequestRow, Step
    <2>6. i \in Invoice /\ invoice[i].status = "ISSUED"
      BY <2>1, <2>2 DEF Timely
    <2>7. /\ invoice'[i].status = "OVERDUE" /\ \A j \in Invoice \ {i} : invoice'[j] = invoice[j]
          /\ invoice' = [invoice EXCEPT ![i] = [invoice[i] EXCEPT !.status = "OVERDUE"]]
          /\ [invoice[i] EXCEPT !.status = "OVERDUE"].status = "OVERDUE"
      BY <2>3, <2>6, StatusWritten
    <2>8. Timely(c)'
      BY <2>1, <2>2, <2>5, <2>6, <2>7 DEF Timely
    <2>9. CheckoutsBilled'
      BY <1>1, <2>6, <2>7, IssuedStay
    <2>10. PICK row : row = [invoice[i] EXCEPT !.status = "OVERDUE"]
      OBVIOUS
    <2>11. [Account!Next]_(Account!vars)
      BY <1>1, <2>6, <2>7, <2>10, BillBecomes
    <2> QED BY <1>0, <2>1, <2>2, <2>4, <2>5, <2>8, <2>9, <2>11, AloneInFlight, AloneGoesOn
  <1>8. ASSUME NEW r \in Request, WriteVoid(r)
        PROVE  OneAtATime' /\ [Account!Next]_(Account!vars)
    <2>1. PICK q \in RequestRow : q = request[r] /\ Timely(q) /\ Sound(q)
      BY <1>0, InFlightSound DEF OneAtATime
    <2>2. PICK i \in Invoice : i = q.invoice /\ Payable(i)
      BY <1>8, <2>1 DEF WriteVoid, Timely, Sound
    <2>3. invoice' = [invoice EXCEPT ![i].status = "VOID"] /\ GoTo(r, "idle") /\ q.at = "writeVoid"
      BY <1>8, <2>1, <2>2 DEF WriteVoid
    <2>4. /\ invoice'[i].status = "VOID" /\ \A j \in Invoice \ {i} : invoice'[j] = invoice[j]
          /\ invoice' = [invoice EXCEPT ![i] = [invoice[i] EXCEPT !.status = "VOID"]]
          /\ [invoice[i] EXCEPT !.status = "VOID"].status = "VOID"
      BY <2>3, StatusWritten
    <2>5. CheckoutsBilled'
      BY <1>1, <2>4, IssuedStay
    <2>6. "idle" \in Step /\ Timely([q EXCEPT !.at = "idle"])'
      BY DEF Step, Timely, RequestRow
    <2>7. PICK row : row = [invoice[i] EXCEPT !.status = "VOID"]
      OBVIOUS
    <2>8. [Account!Next]_(Account!vars)
      BY <1>1, <2>2, <2>4, <2>7, BillBecomes DEF Payable
    <2> QED BY <1>0, <2>1, <2>3, <2>5, <2>6, <2>8, AloneWentOn
  <1>9. ASSUME NEW r \in Request, InsertReissue(r)
        PROVE  OneAtATime' /\ [Account!Next]_(Account!vars)
    <2>1. PICK q \in RequestRow : q = request[r] /\ q.at = "insertReissue"
      BY <1>0, <1>9 DEF TypeOK, InsertReissue
    <2>2. GoTo(r, "idle") /\ "idle" \in Step /\ Timely([q EXCEPT !.at = "idle"])
          /\ Timely([q EXCEPT !.at = "idle"])'
      BY <1>9 DEF InsertReissue, Step, Timely, RequestRow
    <2>3. CASE UNCHANGED invoice
      BY <1>0, <1>1, <2>1, <2>2, <2>3, AloneRead
    <2>4. CASE ~UNCHANGED invoice
      <3>1. PICK i \in Free : invoice' = [invoice EXCEPT ![i] = Issued(None, q.invoice)]
        BY <1>9, <2>1, <2>4 DEF InsertReissue
      <3>2. CheckoutsBilled' /\ [Account!Next]_(Account!vars)
        BY <1>1, <3>1, InvoiceInserted
      <3> QED BY <1>0, <2>1, <2>2, <3>2, AloneWentOn
    <2> QED BY <2>3, <2>4
  <1>10. ASSUME NEW i \in Invoice, InvoiceAges(i)
         PROVE  OneAtATime' /\ [Account!Next]_(Account!vars)
    <2>1. PICK age \in {"DUE", "LATE"} : invoice' = [invoice EXCEPT ![i] = [invoice[i] EXCEPT !.age = age]]
      BY <1>10 DEF InvoiceAges
    <2>2. invoice[i] \in InvoiceRow
      BY <1>0 DEF TypeOK, RowsTypeOK
    <2>3. [invoice[i] EXCEPT !.age = age].status = invoice[i].status
      BY <2>2 DEF InvoiceRow
    <2>4. \A j \in Invoice :
            /\ invoice'[j].status = invoice[j].status
            /\ invoice[j].age = "LATE" => invoice'[j].age = "LATE"
      BY <1>0, <1>10, <2>1, <2>2, <2>3 DEF TypeOK, RowsTypeOK, InvoiceAges
    <2>5. request' = request
      BY <1>10 DEF InvoiceAges
    <2>6. ASSUME NEW r \in Request PROVE Timely(request[r])'
      <3>1. PICK q \in RequestRow : q = request[r] /\ Timely(q) /\ Sound(q)
        BY <1>0, InFlightSound DEF OneAtATime
      <3>2. q.due \subseteq Invoice /\ (q.at \in {"writeVoid", "bookManual"} => q.invoice \in Invoice)
        BY <3>1 DEF RequestRow, Sound
      <3>3. Timely(q)'
        BY <1>1, <2>4, <3>1, <3>2 DEF Timely, Payable
      <3> QED BY <2>5, <3>1, <3>3 DEF Timely, Payable
    <2>7. CheckoutsBilled'
      BY <1>1, <2>4, IssuedStay
    <2>8. PICK row : row = [invoice[i] EXCEPT !.age = age]
      OBVIOUS
    <2>9. [Account!Next]_(Account!vars)
      BY <1>1, <2>1, <2>3, <2>8, BillBecomes
    <2> QED BY <2>5, <2>6, <2>7, <2>9 DEF OneAtATime, Alone, CheckoutsBilled
  <1> QED BY <1>2, <1>3, <1>4, <1>5, <1>6, <1>7, <1>8, <1>9, <1>10 DEF InvoiceNext

\* The provider and the payments.
LEMMA PaymentAlone ==
  ASSUME Inductive, OneAtATime, Serial, PaymentNext
  PROVE  OneAtATime' /\ [Account!Next]_(Account!vars)
  <1>0. TypeOK /\ UNCHANGED subscription
    BY DEF Inductive, PaymentNext, SettleCheckout, Announce, InitiatePayment, InsertAttempt,
       ReceiveEvent, InsertEvent, WriteAttempt, BookPayment, CloseEvent, Answer,
       RecordManualPayment, BookManual, billingRows, tenantRows
  <1>1. ASSUME UNCHANGED <<request, invoice>>, CheckoutsBilled'
        PROVE  OneAtATime' /\ [Account!Next]_(Account!vars)
    <2>1. ASSUME NEW r \in Request PROVE Timely(request[r])'
      <3>1. Timely(request[r])
        BY DEF OneAtATime
      <3> QED BY <1>0, <1>1, <3>1 DEF Timely, Payable
    <2> QED BY <1>0, <1>1, <2>1, AccountStays DEF OneAtATime, Alone, CheckoutsBilled
  <1>2. ASSUME NEW a \in Attempt, SettleCheckout(a)
        PROVE  OneAtATime' /\ [Account!Next]_(Account!vars)
    <2>1. PICK s \in {"SUCCESSFUL", "FAILED"} : checkout' = [checkout EXCEPT ![a].status = s]
      BY <1>2 DEF SettleCheckout
    <2>2. UNCHANGED <<request, invoice>> /\ checkout[a].status = "PENDING"
      BY <1>2 DEF SettleCheckout, tenantRows
    <2>3. /\ \A b \in Attempt : checkout[b] \in Checkout
          /\ checkout[a] # NoCheckout
      BY <1>0, <2>2 DEF TypeOK, RowsTypeOK, NoCheckout
    <2>4. \A b \in Attempt : checkout'[b].invoice = checkout[b].invoice
                            /\ (checkout'[b] # NoCheckout => checkout[b] # NoCheckout)
      BY <1>0, <2>1, <2>3 DEF TypeOK, RowsTypeOK, Checkout
    <2>5. CheckoutsBilled'
      BY <2>2, <2>4 DEF OneAtATime, CheckoutsBilled
    <2> QED BY <1>1, <2>2, <2>5
  <1>3. ASSUME NEW e \in ProviderEvent, Announce(e)
        PROVE  OneAtATime' /\ [Account!Next]_(Account!vars)
    <2>1. UNCHANGED <<request, invoice, checkout>>
      BY <1>3 DEF Announce, tenantRows
    <2> QED BY <1>1, <2>1, IssuedStay
  <1>4. ASSUME NEW r \in Request, InitiatePayment(r)
        PROVE  OneAtATime' /\ [Account!Next]_(Account!vars)
    <2>1. PICK i \in Invoice, a \in Attempt :
            /\ Payable(i)
            /\ Serve(r, [Call("initiate", "insertAttempt") EXCEPT !.invoice = i, !.attempt = a])
            /\ checkout' = [checkout EXCEPT ![a] = [status |-> "PENDING", invoice |-> i]]
            /\ UNCHANGED billingRows
      BY <1>4 DEF InitiatePayment
    <2> DEFINE c == [Call("initiate", "insertAttempt") EXCEPT !.invoice = i, !.attempt = a]
    <2>2. c \in RequestRow /\ c.at = "insertAttempt"
      BY DEF Call, Idle, RequestRow, Step, Operation, Result
    <2>3. UNCHANGED invoice /\ invoice[i].status # "NONE"
      BY <2>1 DEF billingRows, Payable
    <2>4. \A b \in Attempt : checkout'[b] = IF b = a THEN [status |-> "PENDING", invoice |-> i] ELSE checkout[b]
      BY <1>0, <2>1 DEF TypeOK, RowsTypeOK
    <2>5. CheckoutsBilled'
      BY <2>3, <2>4 DEF OneAtATime, CheckoutsBilled
    <2>6. Timely(c)'
      BY <2>2 DEF Timely
    <2>7. OthersIdle(r) /\ request' = [request EXCEPT ![r] = c]
      BY <2>1, AloneServed DEF Serve
    <2> QED BY <1>0, <2>2, <2>3, <2>5, <2>6, <2>7, AloneGoesOn, AccountStays
  <1>5. ASSUME NEW r \in Request,
               InsertAttempt(r) \/ WriteAttempt(r) \/ CloseEvent(r) \/ Answer(r)
        PROVE  OneAtATime' /\ [Account!Next]_(Account!vars)
    <2>1. PICK q \in RequestRow : q = request[r]
      BY <1>0 DEF TypeOK
    <2>2. PICK at \in {"idle", "bookPayment", "closeEvent", "countOutstanding", "answer"} :
            GoTo(r, at) /\ UNCHANGED <<invoice, checkout>> /\ request[r].at # "idle"
      BY <1>5 DEF InsertAttempt, WriteAttempt, CloseEvent, Answer, tenantRows, provider
    <2>3. at \in Step /\ Timely([q EXCEPT !.at = at])
      BY DEF Step, Timely, RequestRow
    <2> QED BY <1>0, <2>1, <2>2, <2>3, AloneRead
  <1>6. ASSUME NEW r \in Request, NEW e \in ProviderEvent, ReceiveEvent(r, e)
        PROVE  OneAtATime' /\ [Account!Next]_(Account!vars)
    <2>0. PICK at \in {"insertEvent", "answer"}, a \in Attempt \cup {None} :
            Serve(r, [Call("webhook", at) EXCEPT !.row = e, !.attempt = a])
      <3>1. notice[e].attempt \in Attempt
        BY <1>6 DEF ReceiveEvent, Inductive, RowsSound
      <3> QED BY <1>6, <3>1 DEF ReceiveEvent
    <2> DEFINE c == [Call("webhook", at) EXCEPT !.row = e, !.attempt = a]
    <2>2. c \in RequestRow /\ c.at = at
      BY DEF Call, Idle, RequestRow, Step, Operation, Result, PaymentKey
    <2>3. Timely(c)
      BY <2>2 DEF Timely
    <2>4. UNCHANGED <<invoice, checkout>>
      BY <1>6 DEF ReceiveEvent, tenantRows, provider
    <2> QED BY <1>0, <2>0, <2>2, <2>3, <2>4, AloneStarts
  <1>7. ASSUME NEW r \in Request, RecordManualPayment(r)
        PROVE  OneAtATime' /\ [Account!Next]_(Account!vars)
    <2>1. PICK i \in Invoice :
            Payable(i) /\ Serve(r, [Call("manual", "bookManual") EXCEPT !.invoice = i])
      BY <1>7 DEF RecordManualPayment
    <2> DEFINE c == [Call("manual", "bookManual") EXCEPT !.invoice = i]
    <2>2. c \in RequestRow /\ c.at = "bookManual" /\ c.invoice = i
      BY DEF Call, Idle, RequestRow, Step, Operation, Result
    <2>3. Timely(c)
      BY <2>1, <2>2 DEF Timely
    <2>4. UNCHANGED <<invoice, checkout>>
      BY <1>7 DEF RecordManualPayment, tenantRows, provider
    <2> QED BY <1>0, <2>1, <2>2, <2>3, <2>4, AloneStarts
  <1>8. ASSUME NEW r \in Request, InsertEvent(r)
        PROVE  OneAtATime' /\ [Account!Next]_(Account!vars)
    <2>1. PICK q \in RequestRow : q = request[r] /\ q.at = "insertEvent"
      BY <1>0, <1>8 DEF TypeOK, InsertEvent
    <2>2. UNCHANGED <<invoice, checkout>>
      BY <1>8 DEF InsertEvent, provider
    <2>3. CASE GoTo(r, "idle")
      <3>1. "idle" \in Step /\ Timely([q EXCEPT !.at = "idle"])
        BY DEF Step, Timely, RequestRow
      <3> QED BY <1>0, <2>1, <2>2, <2>3, <3>1, AloneRead
    <2>4. CASE ~GoTo(r, "idle")
      <3>1. Verdict(q) \in {"ERROR", "REJECTED", "ACCEPTED"}
        BY DEF Verdict
      <3>2. PICK v \in {"ERROR", "REJECTED", "ACCEPTED"}, at \in {"writeAttempt", "closeEvent"} :
              request' = [request EXCEPT ![r].result = v, ![r].at = at]
        BY <1>8, <2>1, <2>4, <3>1 DEF InsertEvent
      <3> DEFINE c == [q EXCEPT !.result = v, !.at = at]
      <3>3. request' = [request EXCEPT ![r] = c]
        BY <1>0, <2>1, <3>2 DEF TypeOK
      <3>4. c \in RequestRow /\ c.at = at
        BY DEF RequestRow, Step, Result
      <3>5. Timely(c)'
        BY <3>4 DEF Timely
      <3>6. CheckoutsBilled'
        BY <2>2, IssuedStay
      <3> QED BY <1>0, <2>1, <2>2, <3>3, <3>4, <3>5, <3>6, AloneInFlight, AloneGoesOn, AccountStays
    <2> QED BY <2>3, <2>4
  <1>9. ASSUME NEW r \in Request, NEW i \in Invoice, NEW at \in {"closeEvent", "countOutstanding"},
               request[r].at # "idle", invoice[i].status # "NONE",
               invoice' = [invoice EXCEPT ![i].status = "PAID"], UNCHANGED checkout, GoTo(r, at)
        PROVE  OneAtATime' /\ [Account!Next]_(Account!vars)
    <2>1. PICK q \in RequestRow : q = request[r]
      BY <1>0 DEF TypeOK
    <2>2. /\ invoice'[i].status = "PAID" /\ \A j \in Invoice \ {i} : invoice'[j] = invoice[j]
          /\ invoice' = [invoice EXCEPT ![i] = [invoice[i] EXCEPT !.status = "PAID"]]
          /\ [invoice[i] EXCEPT !.status = "PAID"].status = "PAID"
      BY <1>9, StatusWritten
    <2>3. CheckoutsBilled'
      BY <1>9, <2>2, IssuedStay
    <2>4. at \in Step /\ Timely([q EXCEPT !.at = at])'
      BY DEF Step, Timely, RequestRow
    <2>5. PICK row : row = [invoice[i] EXCEPT !.status = "PAID"]
      OBVIOUS
    <2>6. invoice[i].status \in {"ISSUED", "OVERDUE", "VOID", "PAID"}
      BY <1>0, <1>9 DEF TypeOK, RowsTypeOK, InvoiceRow, InvoiceStatus
    <2>7. [Account!Next]_(Account!vars)
      BY <1>0, <2>2, <2>5, <2>6, BillBecomes
    <2> QED BY <1>0, <1>9, <2>1, <2>3, <2>4, <2>7, AloneWentOn
  <1>10. ASSUME NEW r \in Request, BookPayment(r)
         PROVE  OneAtATime' /\ [Account!Next]_(Account!vars)
    <2>1. PICK q \in RequestRow : q = request[r] /\ Sound(q) /\ q.at = "bookPayment"
      BY <1>10, InFlightSound DEF BookPayment
    <2>2. q.op = "webhook" /\ q.attempt \in Attempt /\ attempt[q.attempt] # NoAttempt
      <3>1. q.op = "webhook" /\ q.result = "ACCEPTED" /\ q.result = Verdict(q)
        BY <2>1 DEF Sound, WebhookSound
      <3>2. q.attempt # None
        BY <3>1 DEF Verdict
      <3> QED BY <2>1, <3>1, <3>2 DEF Sound, WebhookSound, Inductive, RowsSound
    <2>3. PICK i \in Invoice : i = attempt[q.attempt].invoice /\ invoice[i].status # "NONE"
      BY <2>2 DEF Inductive, RowsSound, OneAtATime
    <2> QED BY <1>9, <1>10, <2>1, <2>3 DEF BookPayment, provider
  <1>11. ASSUME NEW r \in Request, BookManual(r)
         PROVE  OneAtATime' /\ [Account!Next]_(Account!vars)
    <2>1. PICK q \in RequestRow : q = request[r] /\ Timely(q) /\ Sound(q) /\ q.at = "bookManual"
      BY <1>11, InFlightSound DEF BookManual, OneAtATime
    <2>2. PICK i \in Invoice : i = q.invoice /\ invoice[i].status # "NONE"
      BY <2>1 DEF Timely, Payable, Sound
    <2>3. CASE UNCHANGED invoice /\ GoTo(r, "idle")
      <3>1. "idle" \in Step /\ Timely([q EXCEPT !.at = "idle"])
        BY DEF Step, Timely, RequestRow
      <3> QED BY <1>0, <1>11, <2>1, <2>3, <3>1, AloneRead DEF BookManual, provider
    <2>4. CASE ~(UNCHANGED invoice /\ GoTo(r, "idle"))
      <3>1. invoice' = [invoice EXCEPT ![i].status = "PAID"] /\ GoTo(r, "countOutstanding")
            /\ UNCHANGED checkout
        BY <1>11, <2>1, <2>2, <2>4 DEF BookManual, provider
      <3> QED BY <1>9, <2>1, <2>2, <3>1
    <2> QED BY <2>3, <2>4
  <1> QED BY <1>2, <1>3, <1>4, <1>5, <1>6, <1>7, <1>8, <1>10, <1>11 DEF PaymentNext

LEMMA InitOneAtATime == Init => OneAtATime
  BY DEF Init, OneAtATime, Alone, Timely, Idle

\* Every step of requests served one at a time is a step of the account.
LEMMA NextOneAtATime ==
  ASSUME Inductive, OneRun, OneAtATime, Serial, [Next]_vars
  PROVE  OneAtATime' /\ [Account!Next]_(Account!vars)
  <1>0. TypeOK
    BY DEF Inductive
  <1>1. CASE SubscriptionNext
    BY <1>0, <1>1, SubscriptionAlone
  <1>2. CASE InvoiceNext
    BY <1>2, InvoiceAlone
  <1>3. CASE PaymentNext
    BY <1>3, PaymentAlone
  <1>4. ASSUME NEW r \in Request, Crash(r) PROVE OneAtATime' /\ [Account!Next]_(Account!vars)
    <2>1. request' = [request EXCEPT ![r] = Idle] /\ UNCHANGED <<subscription, invoice, checkout>>
      BY <1>4 DEF Crash, GoTo, tenantRows, provider
    <2>2. OthersIdle(r)
      BY <1>4 DEF Crash, OneAtATime, Alone, OthersIdle
    <2>3. Timely(Idle)' /\ CheckoutsBilled'
      BY <2>1 DEF Timely, Idle, OneAtATime, CheckoutsBilled
    <2> QED BY <1>0, <2>1, <2>2, <2>3, IdleSound, AloneGoesOn, AccountStays
  <1>5. CASE UNCHANGED vars
    <2>1. UNCHANGED <<subscription, invoice, checkout, request>>
      BY <1>5 DEF vars, tenantRows, provider
    <2>2. OneAtATime'
      BY <2>1 DEF OneAtATime, Alone, Timely, Payable
    <2> QED BY <2>1, <2>2, AccountStays
  <1> QED BY <1>1, <1>2, <1>3, <1>4, <1>5 DEF Next

\* Requests served one at a time find what they have read still so when they write.
LEMMA AlwaysOneAtATime == Serial => (Spec => []OneAtATime)
  <1> SUFFICES ASSUME Serial PROVE Spec => []OneAtATime
    OBVIOUS
  <1>1. Inductive /\ OneRun /\ OneAtATime /\ [Next]_vars => OneAtATime'
    BY NextOneAtATime
  <1> QED BY <1>1, InitOneAtATime, AlwaysInductive, RunsAreAlone, PTL DEF Spec

\* Of ImplementsAccount (subscription-repository.ts, invoice-repository.ts and
\* payment-repository.ts): served one at a time, and dying wherever they may, the handlers,
\* the job and the webhook move the account only as AccountLifecycle allows.
THEOREM AccountIsKept == Serial => (Spec => ImplementsAccount)
  <1> SUFFICES ASSUME Serial PROVE Spec => ImplementsAccount
    OBVIOUS
  <1>1. Init => Account!Init
    BY DEF Init, Account!Init, NoInvoice
  <1>2. Inductive /\ OneRun /\ OneAtATime /\ [Next]_vars => [Account!Next]_(Account!vars)
    BY NextOneAtATime
  <1> QED BY <1>1, <1>2, AlwaysInductive, RunsAreAlone, AlwaysOneAtATime, PTL
          DEF Spec, ImplementsAccount, Account!Spec

\* Nothing but the write of a suspension makes the subscription SUSPENDED.
LEMMA SuspendedByWrite ==
  ASSUME TypeOK, OneRun, Next, subscription # "SUSPENDED", subscription' = "SUSPENDED"
  PROVE  \E r \in Request : WriteSuspended(r)
  <1>1. CASE SubscriptionNext
    BY <1>1 DEF SubscriptionNext, ActivateSubscription, CountOutstanding, RestoreSubscription,
       WriteActive, MarkTenantPastDue, WritePastDue, SweepSuspensions, SuspendSubscription,
       AdminSuspend, AdminRestore
  <1>2. CASE InvoiceNext
    BY <1>2 DEF InvoiceNext, BeginCycle, CloseRun, GenerateInvoice, FindInvoice, InsertInvoice,
       FindOverdue, MarkOverdue, InvoiceAges, VoidInvoice, WriteVoid, ReissueInvoice,
       InsertReissue, noInvoiceRow
  <1>3. CASE PaymentNext
    BY <1>3, PaymentNextRuns
  <1>4. ASSUME NEW r \in Request, Crash(r) PROVE FALSE
    BY <1>4 DEF Crash, tenantRows
  <1> QED BY <1>1, <1>2, <1>3, <1>4 DEF Next

\* Of SuspensionIsDue (evaluateAutomatedSuspensionsForAllPastDueTenants and
\* suspendTenantSubscription): the sweep's search, its second look at the status and its
\* write are three statements, and one at a time the write still finds an OVERDUE invoice
\* that has outlived its grace period.
THEOREM SuspensionsAreDue == Serial => (Spec => SuspensionIsDue)
  <1> SUFFICES ASSUME Serial PROVE Spec => SuspensionIsDue
    OBVIOUS
  <1>1. ASSUME TypeOK, OneRun, OneAtATime, Next,
               subscription # "SUSPENDED", subscription' = "SUSPENDED"
        PROVE  \/ \E r \in Request : request[r].op = "adminSuspend"
               \/ \E i \in Invoice : invoice[i].status = "OVERDUE" /\ invoice[i].age = "LATE"
    <2>1. PICK r \in Request : WriteSuspended(r)
      BY <1>1, SuspendedByWrite
    <2>2. Timely(request[r])
      BY <1>1 DEF OneAtATime
    <2> QED BY <2>1, <2>2 DEF WriteSuspended, Timely
  <1>2. TypeOK /\ OneRun /\ OneAtATime /\ [Next]_vars =>
          [subscription # "SUSPENDED" /\ subscription' = "SUSPENDED" =>
             \/ \E r \in Request : request[r].op = "adminSuspend"
             \/ \E i \in Invoice : invoice[i].status = "OVERDUE" /\ invoice[i].age = "LATE"]_vars
    BY <1>1
  <1> QED BY <1>2, TypeCorrect, RunsAreAlone, AlwaysOneAtATime, PTL DEF Spec, SuspensionIsDue

-------------------------------------------------------------------------------
(* The last payment restores the subscription.                             *)

\* A request on its way to the write of ACTIVE takes its next statement.
LEMMA RestoringGoesOn ==
  ASSUME Inductive, OneAtATime, Serial, ~MayCrash, Next,
         NEW r \in Request, Restores(request[r]), Settled', subscription' \notin {"PENDING", "ACTIVE"}
  PROVE  Restores(request[r])'
  <1>1. PICK q \in RequestRow : q = request[r] /\ Sound(q)
    BY InFlightSound
  <1>2. q.at \in {"countOutstanding", "restore", "writeActive", "closeEvent"} /\ OthersIdle(r)
    <2>1. q.at \in {"countOutstanding", "restore", "writeActive", "closeEvent"}
      BY <1>1 DEF Restores
    <2> QED BY <1>1, <2>1, AloneInFlight
  <1>3. ASSUME UNCHANGED <<request, notice>> PROVE Restores(request[r])'
    BY <1>3 DEF Restores
  <1>4. ASSUME NEW s \in Request, request[s].at \notin {"idle", q.at} PROVE FALSE
    BY <1>1, <1>2, <1>4 DEF OthersIdle, Idle
  <1>5. ASSUME NEW s \in Request, NEW call, Serve(s, call) PROVE FALSE
    BY <1>1, <1>2, <1>5 DEF Serve, Quiescent, Idle
  <1>6. ASSUME NEW at \in {"countOutstanding", "restore", "writeActive"}, GoTo(r, at)
        PROVE  Restores(request[r])'
    <2>1. request'[r] = [q EXCEPT !.at = at]
      BY <1>1, <1>6 DEF GoTo, Inductive, TypeOK
    <2>2. request'[r].at = at
      BY <2>1 DEF RequestRow
    <2> QED BY <2>2 DEF Restores
  <1>7. CASE SubscriptionNext
    <2>1. PICK s \in Request :
            \/ ActivateSubscription(s) \/ CountOutstanding(s) \/ RestoreSubscription(s)
            \/ WriteActive(s) \/ MarkTenantPastDue(s) \/ WritePastDue(s)
            \/ SweepSuspensions(s) \/ SuspendSubscription(s) \/ WriteSuspended(s)
            \/ AdminSuspend(s) \/ AdminRestore(s)
      BY <1>7 DEF SubscriptionNext
    <2>2. CASE CountOutstanding(s) \/ RestoreSubscription(s) \/ WriteActive(s)
      <3>1. s = r
        BY <1>2, <2>2 DEF CountOutstanding, RestoreSubscription, WriteActive, OthersIdle, Idle
      <3>2. CASE CountOutstanding(r)
        <4>1. UNCHANGED invoice
          BY <3>2 DEF CountOutstanding, otherRows
        <4>2. ~\E i \in Invoice : invoice[i].status \in {"ISSUED", "OVERDUE"}
          BY <4>1 DEF Settled
        <4> QED BY <1>6, <3>2, <4>2 DEF CountOutstanding
      <3>3. CASE RestoreSubscription(r)
        <4>1. subscription \in {"SUSPENDED", "PAST_DUE"}
          BY <3>3 DEF RestoreSubscription, Inductive, TypeOK, RowsTypeOK, SubscriptionStatus
        <4> QED BY <1>6, <3>3, <4>1 DEF RestoreSubscription
      <3>4. CASE WriteActive(r)
        BY <3>4 DEF WriteActive
      <3> QED BY <2>2, <3>1, <3>2, <3>3, <3>4
    <2>3. CASE AdminSuspend(s) \/ AdminRestore(s)
      BY <1>5, <2>3 DEF AdminSuspend, AdminRestore
    <2>4. CASE ActivateSubscription(s) \/ MarkTenantPastDue(s) \/ WritePastDue(s) \/
               SweepSuspensions(s) \/ SuspendSubscription(s) \/ WriteSuspended(s)
      <3>1. request[s].at \notin {"idle", "countOutstanding", "restore", "writeActive", "closeEvent"}
        BY <2>4 DEF ActivateSubscription, MarkTenantPastDue, WritePastDue, SweepSuspensions,
           SuspendSubscription, WriteSuspended
      <3> QED BY <1>2, <1>4, <3>1
    <2> QED BY <2>1, <2>2, <2>3, <2>4
  <1>8. CASE InvoiceNext
    <2>1. ASSUME NEW i \in Invoice, InvoiceAges(i) PROVE Restores(request[r])'
      BY <1>3, <2>1 DEF InvoiceAges, noInvoiceRow, provider
    <2>2. ASSUME NEW s \in Request,
                 BeginCycle(s) \/ GenerateInvoice(s) \/ VoidInvoice(s) \/ ReissueInvoice(s)
          PROVE  FALSE
      BY <1>5, <2>2 DEF BeginCycle, GenerateInvoice, VoidInvoice, ReissueInvoice
    <2>3. ASSUME NEW s \in Request,
                 CloseRun(s) \/ FindInvoice(s) \/ InsertInvoice(s) \/ FindOverdue(s) \/
                 MarkOverdue(s) \/ WriteVoid(s) \/ InsertReissue(s)
          PROVE  FALSE
      <3>1. request[s].at \notin {"idle", "countOutstanding", "restore", "writeActive", "closeEvent"}
        BY <2>3 DEF CloseRun, FindInvoice, InsertInvoice, FindOverdue, MarkOverdue, WriteVoid,
           InsertReissue
      <3> QED BY <1>2, <1>4, <3>1
    <2> QED BY <1>8, <2>1, <2>2, <2>3 DEF InvoiceNext
  <1>9. CASE PaymentNext
    <2>1. ASSUME NEW a \in Attempt, SettleCheckout(a) PROVE Restores(request[r])'
      BY <1>3, <2>1 DEF SettleCheckout
    <2>2. ASSUME NEW e \in ProviderEvent, Announce(e) PROVE Restores(request[r])'
      <3>1. q.at = "closeEvent" => q.row \in ProviderEvent /\ notice[q.row] # NoNotice
        BY <1>1 DEF Sound, WebhookSound
      <3>2. q.at = "closeEvent" => notice'[q.row] = notice[q.row]
        BY <2>2, <3>1 DEF Announce, Inductive, TypeOK, RowsTypeOK
      <3>3. request'[r] = q
        BY <1>1, <2>2 DEF Announce
      <3> QED BY <1>1, <3>2, <3>3 DEF Restores
    <2>3. ASSUME NEW s \in Request,
                 InitiatePayment(s) \/ (\E e \in ProviderEvent : ReceiveEvent(s, e)) \/
                 RecordManualPayment(s)
          PROVE  FALSE
      BY <1>5, <2>3 DEF InitiatePayment, ReceiveEvent, RecordManualPayment
    <2>4. ASSUME NEW s \in Request,
                 InsertAttempt(s) \/ InsertEvent(s) \/ WriteAttempt(s) \/ BookPayment(s) \/
                 Answer(s) \/ BookManual(s)
          PROVE  FALSE
      <3>1. request[s].at \notin {"idle", "countOutstanding", "restore", "writeActive", "closeEvent"}
        BY <2>4 DEF InsertAttempt, InsertEvent, WriteAttempt, BookPayment, Answer, BookManual
      <3> QED BY <1>2, <1>4, <3>1
    <2>5. ASSUME NEW s \in Request, CloseEvent(s) PROVE Restores(request[r])'
      <3>1. s = r
        BY <1>2, <2>5 DEF CloseEvent, OthersIdle, Idle
      <3>2. q.result = "ACCEPTED" /\ notice[q.row].status = "SUCCESSFUL"
        BY <1>1, <2>5, <3>1 DEF CloseEvent, Restores
      <3> QED BY <1>1, <1>6, <2>5, <3>1, <3>2 DEF CloseEvent
    <2> QED BY <1>9, <2>1, <2>2, <2>3, <2>4, <2>5 DEF PaymentNext
  <1>10. ASSUME NEW s \in Request, Crash(s) PROVE FALSE
    BY <1>10 DEF Crash
  <1> QED BY <1>7, <1>8, <1>9, <1>10 DEF Next

\* While something is owed, the write of PAST_DUE or SUSPENDED needs no restoring, and
\* only the booking of a payment settles the account.
LEMMA RestoringBegins ==
  ASSUME Inductive, OneRun, OneAtATime, Serial, ~MayCrash, Next,
         Settled => subscription \in {"PENDING", "ACTIVE"},
         Settled', subscription' \notin {"PENDING", "ACTIVE"}
  PROVE  \E r \in Request : Restores(request[r])'
  <1>0. TypeOK
    BY DEF Inductive
  <1>1. CASE UNCHANGED invoice
    <2>1. Settled /\ subscription \in {"PENDING", "ACTIVE"}
      BY <1>1 DEF Settled
    <2>2. PICK r \in Request : WritePastDue(r) \/ WriteSuspended(r)
      <3>1. CASE SubscriptionNext
        BY <2>1, <3>1 DEF SubscriptionNext, ActivateSubscription, CountOutstanding,
           RestoreSubscription, WriteActive, MarkTenantPastDue, SweepSuspensions,
           SuspendSubscription, AdminSuspend, AdminRestore
      <3>2. CASE InvoiceNext
        BY <2>1, <3>2 DEF InvoiceNext, BeginCycle, CloseRun, GenerateInvoice, FindInvoice,
           InsertInvoice, FindOverdue, MarkOverdue, InvoiceAges, VoidInvoice, WriteVoid,
           ReissueInvoice, InsertReissue, noInvoiceRow
      <3>3. CASE PaymentNext
        BY <1>0, <2>1, <3>3, PaymentNextRuns
      <3>4. ASSUME NEW r \in Request, Crash(r) PROVE FALSE
        BY <3>4 DEF Crash
      <3> QED BY <3>1, <3>2, <3>3, <3>4 DEF Next
    <2>3. Timely(request[r])
      BY DEF OneAtATime
    <2>4. CASE WritePastDue(r)
      BY <2>1, <2>3, <2>4 DEF WritePastDue, Timely, Settled
    <2>5. CASE WriteSuspended(r)
      BY <2>1, <2>3, <2>5 DEF WriteSuspended, Timely
    <2> QED BY <2>2, <2>4, <2>5
  <1>2. CASE ~UNCHANGED invoice
    <2>1. CASE SubscriptionNext
      BY <1>2, <2>1 DEF SubscriptionNext, ActivateSubscription, CountOutstanding,
         RestoreSubscription, WriteActive, MarkTenantPastDue, WritePastDue, SweepSuspensions,
         SuspendSubscription, WriteSuspended, AdminSuspend, AdminRestore, otherRows
    <2>2. CASE InvoiceNext
      <3>1. UNCHANGED subscription
        BY <2>2 DEF InvoiceNext, BeginCycle, CloseRun, GenerateInvoice, FindInvoice,
           InsertInvoice, FindOverdue, MarkOverdue, InvoiceAges, VoidInvoice, WriteVoid,
           ReissueInvoice, InsertReissue, noInvoiceRow
      <3>2. ASSUME NEW i \in Invoice, InvoiceAges(i) PROVE FALSE
        <4>1. PICK age \in {"DUE", "LATE"} : invoice' = [invoice EXCEPT ![i] = [invoice[i] EXCEPT !.age = age]]
          BY <3>2 DEF InvoiceAges
        <4>2. invoice[i] \in InvoiceRow
          BY <1>0 DEF TypeOK, RowsTypeOK
        <4>3. [invoice[i] EXCEPT !.age = age].status = invoice[i].status
          BY <4>2 DEF InvoiceRow
        <4>4. \A j \in Invoice : invoice'[j].status = invoice[j].status
          BY <1>0, <4>1, <4>3 DEF TypeOK, RowsTypeOK
        <4> QED BY <3>1, <4>4 DEF Settled
      <3>3. ASSUME NEW i \in Invoice, invoice'[i].status \notin {"NONE", "PAID"} PROVE FALSE
        BY <3>3 DEF Settled
      <3>4. ASSUME NEW r \in Request, InsertInvoice(r) \/ InsertReissue(r) PROVE FALSE
        <4>1. PICK i \in Free : \E p, o : invoice' = [invoice EXCEPT ![i] = Issued(p, o)]
          BY <1>2, <3>4 DEF InsertInvoice, InsertReissue
        <4>2. i \in Invoice /\ invoice'[i].status = "ISSUED"
          BY <1>0, <4>1 DEF Free, Issued, TypeOK, RowsTypeOK
        <4> QED BY <3>3, <4>2
      <3>5. ASSUME NEW r \in Request, MarkOverdue(r) \/ WriteVoid(r) PROVE FALSE
        <4>1. PICK q \in RequestRow : q = request[r] /\ Sound(q)
          BY InFlightSound
        <4>2. PICK i \in Invoice, s \in {"OVERDUE", "VOID"} : invoice' = [invoice EXCEPT ![i].status = s]
          <5>1. CASE MarkOverdue(r)
            <6>1. q.due \subseteq Invoice
              BY <4>1 DEF RequestRow
            <6> QED BY <4>1, <5>1, <6>1 DEF MarkOverdue
          <5>2. CASE WriteVoid(r)
            BY <4>1, <5>2 DEF WriteVoid, Sound
          <5> QED BY <3>5, <5>1, <5>2
        <4>3. invoice'[i].status = s
          BY <4>2, StatusWritten
        <4> QED BY <3>3, <4>3
      <3> QED BY <1>2, <2>2, <3>2, <3>4, <3>5 DEF InvoiceNext, BeginCycle, CloseRun, GenerateInvoice,
              FindInvoice, FindOverdue, VoidInvoice, ReissueInvoice
    <2>3. CASE PaymentNext
      <3>1. PICK r \in Request : BookPayment(r) \/ BookManual(r)
        BY <1>2, <2>3 DEF PaymentNext, SettleCheckout, Announce, InitiatePayment, InsertAttempt,
           ReceiveEvent, InsertEvent, WriteAttempt, CloseEvent, Answer,
           RecordManualPayment, billingRows, tenantRows
      <3>2. PICK q \in RequestRow : q = request[r] /\ Sound(q)
        BY InFlightSound
      <3>3. CASE BookPayment(r)
        <4>1. request'[r] = [q EXCEPT !.at = "closeEvent"] /\ UNCHANGED notice /\ q.at = "bookPayment"
          BY <1>0, <3>2, <3>3 DEF BookPayment, GoTo, TypeOK, provider
        <4>2. /\ request'[r].at = "closeEvent" /\ request'[r].result = q.result
              /\ request'[r].row = q.row
          BY <4>1 DEF RequestRow
        <4>3. q.result = "ACCEPTED" /\ notice[q.row].status = "SUCCESSFUL"
          BY <3>2, <4>1 DEF Sound, WebhookSound
        <4> QED BY <4>1, <4>2, <4>3 DEF Restores
      <3>4. CASE BookManual(r)
        <4>1. GoTo(r, "countOutstanding")
          BY <1>2, <3>4 DEF BookManual
        <4>2. request'[r] = [q EXCEPT !.at = "countOutstanding"]
          BY <1>0, <3>2, <4>1 DEF GoTo, TypeOK
        <4>3. request'[r].at = "countOutstanding"
          BY <4>2 DEF RequestRow
        <4> QED BY <4>3 DEF Restores
      <3> QED BY <3>1, <3>3, <3>4
    <2>4. ASSUME NEW r \in Request, Crash(r) PROVE FALSE
      BY <2>4 DEF Crash
    <2> QED BY <2>1, <2>2, <2>3, <2>4 DEF Next
  <1> QED BY <1>1, <1>2

LEMMA NextRestoredInTime ==
  ASSUME Inductive, OneRun, OneAtATime, Serial, ~MayCrash, RestoredInTime, [Next]_vars
  PROVE  RestoredInTime'
  <1>1. CASE UNCHANGED vars
    BY <1>1 DEF vars, tenantRows, provider, RestoredInTime, Settled, Restores
  <1>2. CASE Next
    BY <1>2, RestoringGoesOn, RestoringBegins DEF RestoredInTime
  <1> QED BY <1>1, <1>2

\* Of SettledIsRestored (restoreSubscriptionIfNoOutstandingInvoices): served one at a time
\* and none dying, no request leaves a tenant warned or suspended who owes nothing any
\* more, however many invoices were paid in whatever order.
THEOREM PaymentsRestore == Serial /\ ~MayCrash => (Spec => []SettledIsRestored)
  <1> SUFFICES ASSUME Serial, ~MayCrash PROVE Spec => []SettledIsRestored
    OBVIOUS
  <1>1. Init => RestoredInTime
    BY DEF Init, RestoredInTime
  <1>2. Inductive /\ OneRun /\ OneAtATime /\ RestoredInTime /\ [Next]_vars => RestoredInTime'
    BY NextRestoredInTime
  <1>3. TypeOK /\ RestoredInTime => SettledIsRestored
    BY DEF RestoredInTime, SettledIsRestored, Settled, Quiescent, Restores, Idle, TypeOK,
           RowsTypeOK, SubscriptionStatus
  <1> QED BY <1>1, <1>2, <1>3, TypeCorrect, AlwaysInductive, RunsAreAlone, AlwaysOneAtATime, PTL
          DEF Spec

-------------------------------------------------------------------------------
(***************************************************************************)
(* Acknowledged events.  Served one at a time, an event finds the attempt  *)
(* of its checkout, and one that names no other amount whose row is not    *)
(* ACCEPTED yet is still being processed, as long as no request dies: what *)
(* is answered, be it as a DUPLICATE, has been accepted.                   *)
(***************************************************************************)
Unrecorded(a) == checkout[a] # NoCheckout /\ attempt[a] = NoAttempt
Records(r, a) == request[r].at = "insertAttempt" /\ request[r].attempt = a

Undecided(e) ==
  notice[e] # NoNotice /\ notice[e].amount # "other" /\ providerEvent[e] \notin {"NONE", "ACCEPTED"}
Processing == {"writeAttempt", "bookPayment", "closeEvent"}
Decides(r, e) == request[r].at \in Processing /\ request[r].row = e

Processed(e) ==
  providerEvent[e] # "NONE" /\ (notice[e].amount # "other" => providerEvent[e] = "ACCEPTED")

Reports(q) ==
  /\ q.at \in {"insertEvent"} \cup Processing => q.attempt # None
  /\ q.op = "webhook" /\ q.at \notin {"insertEvent"} \cup Processing => Processed(q.row)

Accounted ==
  /\ \A a \in Attempt : Unrecorded(a) => \E r \in Request : Records(r, a)
  /\ \A e \in ProviderEvent : Undecided(e) => \E r \in Request : Decides(r, e)
  /\ \A e \in acknowledged : Processed(e)
  /\ \A r \in Request : Reports(request[r])

\* The request that moves leaves nothing behind it, and the others are where they were.
LEMMA AccountedGoesOn ==
  ASSUME Inductive, Inductive', Accounted, NEW r \in Request,
         \A s \in Request \ {r} : request'[s] = request[s],
         Reports(request[r])',
         \A a \in Attempt : Unrecorded(a)' => Records(r, a)' \/ (Unrecorded(a) /\ ~Records(r, a)),
         \A e \in ProviderEvent : Undecided(e)' => Decides(r, e)' \/ (Undecided(e) /\ ~Decides(r, e)),
         \A e \in ProviderEvent : Processed(e) => Processed(e)',
         \A e \in acknowledged' : e \in acknowledged \/ Processed(e)'
  PROVE  Accounted'
  <1>1. ASSUME NEW a \in Attempt, Unrecorded(a)' PROVE \E s \in Request : Records(s, a)'
    BY <1>1 DEF Accounted, Records
  <1>2. ASSUME NEW e \in ProviderEvent, Undecided(e)' PROVE \E s \in Request : Decides(s, e)'
    BY <1>2 DEF Accounted, Decides
  <1>3. \A e \in acknowledged' : Processed(e)'
    BY DEF Accounted, Inductive, TypeOK, RowsTypeOK
  <1>4. ASSUME NEW s \in Request, s # r PROVE Reports(request[s])'
    <2>1. Reports(request[s]) /\ request'[s] = request[s]
      BY <1>4 DEF Accounted
    <2>2. request[s].op = "webhook" => request[s].row \in ProviderEvent
      BY DEF Inductive, Sound, WebhookSound
    <2> QED BY <2>1, <2>2 DEF Reports
  <1> QED BY <1>1, <1>2, <1>3, <1>4 DEF Accounted

webhookRows == <<attempt, checkout, notice, providerEvent, acknowledged>>

\* Where neither attempts nor events are dealt with.
Elsewhere(r) ==
  /\ {request[r].at, request'[r].at} \cap ({"insertAttempt", "insertEvent"} \cup Processing) = {}
  /\ request'[r].op = "webhook" => request[r].op = "webhook" /\ request'[r].row = request[r].row
  /\ \A s \in Request \ {r} : request'[s] = request[s]

LEMMA AccountedElsewhere ==
  ASSUME Inductive, Inductive', Accounted, NEW r \in Request, Elsewhere(r), UNCHANGED webhookRows
  PROVE  Accounted'
  <1>1. Reports(request[r])'
    BY DEF Elsewhere, Accounted, Reports, Processed, webhookRows
  <1>2. /\ \A a \in Attempt : Unrecorded(a)' => Unrecorded(a) /\ ~Records(r, a)
        /\ \A e \in ProviderEvent : Undecided(e)' => Undecided(e) /\ ~Decides(r, e)
        /\ \A e \in ProviderEvent : Processed(e) => Processed(e)'
        /\ \A e \in acknowledged' : e \in acknowledged
    BY DEF Elsewhere, Unrecorded, Records, Undecided, Decides, Processed, webhookRows
  <1>3. \A s \in Request \ {r} : request'[s] = request[s]
    BY DEF Elsewhere
  <1> QED BY <1>1, <1>2, <1>3, AccountedGoesOn

LEMMA GoesElsewhere ==
  ASSUME TypeOK, NEW r \in Request, NEW at, GoTo(r, at),
         request[r].at \notin {"insertAttempt", "insertEvent"} \cup Processing,
         at \notin {"insertAttempt", "insertEvent"} \cup Processing
  PROVE  Elsewhere(r)
  <1>1. request[r] \in RequestRow
    BY DEF TypeOK
  <1>2. request'[r] = (IF at = "idle" THEN Idle ELSE [request[r] EXCEPT !.at = at])
        /\ \A s \in Request \ {r} : request'[s] = request[s]
    BY DEF GoTo, TypeOK
  <1> QED BY <1>1, <1>2 DEF Elsewhere, Idle, RequestRow, Processing

LEMMA ServedElsewhere ==
  ASSUME TypeOK, NEW r \in Request, NEW q, Serve(r, q), q.op # "webhook",
         q.at \notin {"insertAttempt", "insertEvent"} \cup Processing
  PROVE  Elsewhere(r)
  <1>1. request[r].at = "idle" /\ request'[r] = q /\ \A s \in Request \ {r} : request'[s] = request[s]
    BY DEF Serve, TypeOK, Idle
  <1> QED BY <1>1 DEF Elsewhere, Processing

LEMMA AfterwardsElsewhere ==
  ASSUME NEW q
  PROVE  Afterwards(q) \notin {"insertAttempt", "insertEvent"} \cup Processing
  BY DEF Afterwards, Processing

\* The subscription and the invoices know nothing of events.
LEMMA AccountElsewhere ==
  ASSUME TypeOK, SubscriptionNext \/ InvoiceNext
  PROVE  /\ UNCHANGED webhookRows
         /\ UNCHANGED request \/ \E r \in Request : Elsewhere(r)
  <1>1. UNCHANGED webhookRows
    BY DEF SubscriptionNext, ActivateSubscription, CountOutstanding, RestoreSubscription, WriteActive,
           MarkTenantPastDue, WritePastDue, SweepSuspensions, SuspendSubscription, WriteSuspended,
           AdminSuspend, AdminRestore, InvoiceNext, BeginCycle, CloseRun, GenerateInvoice, FindInvoice,
           InsertInvoice, FindOverdue, MarkOverdue, VoidInvoice, WriteVoid, ReissueInvoice,
           InsertReissue, InvoiceAges, otherRows, noInvoiceRow, webhookRows, provider
  <1>2. ASSUME SubscriptionNext PROVE \E r \in Request : Elsewhere(r)
    <2>1. PICK r \in Request :
            \/ ActivateSubscription(r) \/ CountOutstanding(r) \/ RestoreSubscription(r)
            \/ WriteActive(r) \/ MarkTenantPastDue(r) \/ WritePastDue(r)
            \/ SweepSuspensions(r) \/ SuspendSubscription(r) \/ WriteSuspended(r)
            \/ AdminSuspend(r) \/ AdminRestore(r)
      BY <1>2 DEF SubscriptionNext
    <2>2. CASE AdminSuspend(r) \/ AdminRestore(r)
      <3>1. \E op \in {"adminSuspend", "adminRestore"}, at \in {"writeSuspended", "writeActive"} :
              Serve(r, Call(op, at))
        BY <2>2 DEF AdminSuspend, AdminRestore
      <3>2. \A op \in {"adminSuspend", "adminRestore"}, at \in {"writeSuspended", "writeActive"} :
              Call(op, at).op # "webhook"
                /\ Call(op, at).at \notin {"insertAttempt", "insertEvent"} \cup Processing
        BY DEF Call, Idle, Processing
      <3> QED BY <3>1, <3>2, ServedElsewhere
    <2>3. CASE ~(AdminSuspend(r) \/ AdminRestore(r))
      <3>1. PICK at : /\ GoTo(r, at)
                      /\ at \in Plain \/ at = Afterwards(request[r])
        BY <2>1, <2>3 DEF ActivateSubscription, CountOutstanding, RestoreSubscription, WriteActive,
           MarkTenantPastDue, WritePastDue, SweepSuspensions, SuspendSubscription, WriteSuspended,
           NextOverdue, Plain
      <3>2. request[r].at \in Plain
        BY <2>1, <2>3 DEF ActivateSubscription, CountOutstanding, RestoreSubscription, WriteActive,
           MarkTenantPastDue, WritePastDue, SweepSuspensions, SuspendSubscription, WriteSuspended, Plain
      <3>3. Plain \cap ({"insertAttempt", "insertEvent"} \cup Processing) = {}
        BY DEF Plain, Processing
      <3> QED BY <3>1, <3>2, <3>3, AfterwardsElsewhere, GoesElsewhere
    <2> QED BY <2>2, <2>3
  <1>3. ASSUME InvoiceNext PROVE UNCHANGED request \/ \E r \in Request : Elsewhere(r)
    <2>1. CASE \E i \in Invoice : InvoiceAges(i)
      BY <2>1 DEF InvoiceAges
    <2>2. ASSUME NEW r \in Request,
                 BeginCycle(r) \/ GenerateInvoice(r) \/ VoidInvoice(r) \/ ReissueInvoice(r)
          PROVE  Elsewhere(r)
      <3>1. PICK op \in {"cycle", "generate", "void", "reissue"},
                 at \in {"findInvoice", "insertInvoice", "writeVoid", "insertReissue"} :
              \/ \E p \in Period : Serve(r, [Call(op, at) EXCEPT !.period = p])
              \/ \E i \in Invoice : Serve(r, [Call(op, at) EXCEPT !.invoice = i])
        BY <2>2 DEF BeginCycle, GenerateInvoice, VoidInvoice, ReissueInvoice
      <3>2. \A x : /\ [Call(op, at) EXCEPT !.period = x].op = op
                   /\ [Call(op, at) EXCEPT !.period = x].at = at
                   /\ [Call(op, at) EXCEPT !.invoice = x].op = op
                   /\ [Call(op, at) EXCEPT !.invoice = x].at = at
        BY DEF Call, Idle
      <3>3. PICK q : Serve(r, q) /\ q.op = op /\ q.at = at
        BY <3>1, <3>2
      <3> QED BY <3>3, ServedElsewhere DEF Processing
    <2>3. ASSUME NEW r \in Request,
                 CloseRun(r) \/ FindInvoice(r) \/ InsertInvoice(r) \/ WriteVoid(r) \/ InsertReissue(r)
          PROVE  Elsewhere(r)
      <3>1. PICK at : /\ GoTo(r, at)
                      /\ \/ at \in {"idle", "findOverdue", "insertInvoice", "activate"}
                         \/ at = Afterwards(request[r])
        BY <2>3 DEF CloseRun, FindInvoice, InsertInvoice, WriteVoid, InsertReissue
      <3>2. request[r].at \in {"closeRun", "findInvoice", "insertInvoice", "writeVoid", "insertReissue"}
        BY <2>3 DEF CloseRun, FindInvoice, InsertInvoice, WriteVoid, InsertReissue
      <3>3. at \notin {"insertAttempt", "insertEvent"} \cup Processing
        BY <3>1, AfterwardsElsewhere DEF Processing
      <3> QED BY <3>1, <3>2, <3>3, GoesElsewhere DEF Processing
    <2>4. ASSUME NEW r \in Request, FindOverdue(r) \/ MarkOverdue(r)
          PROVE  Elsewhere(r)
      <3>1. request[r] \in RequestRow /\ request[r].at \in {"findOverdue", "markOverdue"}
        BY <2>4 DEF FindOverdue, MarkOverdue, TypeOK
      <3>2. PICK due : \E at \in {"sweep", "markOverdue", "markPastDue"} :
              request' = [request EXCEPT ![r].due = due, ![r].at = at]
        BY <2>4 DEF FindOverdue, MarkOverdue
      <3>3. PICK at \in {"sweep", "markOverdue", "markPastDue"} :
              /\ request'[r] = [request[r] EXCEPT !.due = due, !.at = at]
              /\ \A s \in Request \ {r} : request'[s] = request[s]
        BY <3>1, <3>2 DEF TypeOK
      <3> QED BY <3>1, <3>3 DEF Elsewhere, RequestRow, Processing
    <2> QED BY <1>3, <2>1, <2>2, <2>3, <2>4 DEF InvoiceNext
  <1> QED BY <1>1, <1>2, <1>3

\* The provider moves nobody.
LEMMA AccountedAnnounced ==
  ASSUME Inductive, Inductive', Accounted,
         (\E a \in Attempt : SettleCheckout(a)) \/ (\E e \in ProviderEvent : Announce(e))
  PROVE  Accounted'
  <1>1. UNCHANGED <<attempt, providerEvent, acknowledged, request>>
    BY DEF SettleCheckout, Announce, tenantRows
  <1>2. \A a \in Attempt : checkout'[a] # NoCheckout => checkout[a] # NoCheckout
    BY DEF SettleCheckout, Announce, Inductive, TypeOK, RowsTypeOK, NoCheckout
  <1>3. \A e \in ProviderEvent : providerEvent[e] # "NONE" => notice'[e] = notice[e]
    BY DEF SettleCheckout, Announce, Inductive, TypeOK, RowsTypeOK, RowsSound
  <1>4. \A a \in Attempt : Unrecorded(a)' => Unrecorded(a)
    BY <1>1, <1>2 DEF Unrecorded
  <1>5. \A e \in ProviderEvent : (Undecided(e)' => Undecided(e)) /\ (Processed(e) => Processed(e)')
    BY <1>1, <1>3 DEF Undecided, Processed
  <1>6. acknowledged \subseteq ProviderEvent
    BY DEF Inductive, TypeOK, RowsTypeOK
  <1>7. ASSUME NEW r \in Request PROVE Reports(request[r])'
    <2>1. Reports(request[r])
      BY DEF Accounted
    <2>2. request[r].op = "webhook" => request[r].row \in ProviderEvent
      BY DEF Inductive, Sound, WebhookSound
    <2> QED BY <1>1, <1>5, <2>1, <2>2 DEF Reports
  <1> QED BY <1>1, <1>4, <1>5, <1>6, <1>7 DEF Accounted, Records, Decides

\* A checkout and its attempt: the request in between records what is not recorded yet.
LEMMA AccountedInitiated ==
  ASSUME Inductive, Inductive', Accounted, NEW r \in Request, InitiatePayment(r) \/ InsertAttempt(r)
  PROVE  Accounted'
  <1>1. UNCHANGED <<notice, providerEvent, acknowledged>>
    BY DEF InitiatePayment, InsertAttempt, billingRows, provider
  <1>2. /\ \A e \in ProviderEvent : (Undecided(e)' => Undecided(e)) /\ (Processed(e) => Processed(e)')
        /\ \A e \in acknowledged' : e \in acknowledged
    BY <1>1 DEF Undecided, Processed
  <1>3. CASE InitiatePayment(r)
    <2>1. PICK i \in Invoice, b \in Attempt :
            /\ Serve(r, [Call("initiate", "insertAttempt") EXCEPT !.invoice = i, !.attempt = b])
            /\ checkout' = [checkout EXCEPT ![b] = [status |-> "PENDING", invoice |-> i]]
            /\ UNCHANGED attempt
      BY <1>3 DEF InitiatePayment, billingRows
    <2>2. PICK q : /\ q = [Call("initiate", "insertAttempt") EXCEPT !.invoice = i, !.attempt = b]
                   /\ Serve(r, q)
      BY <2>1
    <2>3. q.op = "initiate" /\ q.at = "insertAttempt" /\ q.attempt = b
      BY <2>2 DEF Call, Idle
    <2>4. /\ request[r].at = "idle" /\ request'[r] = q
          /\ \A s \in Request \ {r} : request'[s] = request[s]
      BY <2>2 DEF Serve, Inductive, TypeOK, Idle
    <2>5. Reports(request[r])'
      BY <2>3, <2>4 DEF Reports, Processing
    <2>6. \A a \in Attempt : Unrecorded(a)' => Records(r, a)' \/ (Unrecorded(a) /\ ~Records(r, a))
      BY <2>1, <2>3, <2>4 DEF Unrecorded, Records, Inductive, TypeOK, RowsTypeOK
    <2>7. \A e \in ProviderEvent : ~Decides(r, e)
      BY <2>4 DEF Decides, Processing
    <2> QED BY <1>2, <2>4, <2>5, <2>6, <2>7, AccountedGoesOn
  <1>4. CASE InsertAttempt(r)
    <2>1. /\ request[r].at = "insertAttempt" /\ GoTo(r, "idle") /\ UNCHANGED checkout
          /\ attempt' = [attempt EXCEPT ![request[r].attempt] =
                           [NoAttempt EXCEPT !.status = "PENDING", !.invoice = request[r].invoice]]
      BY <1>4 DEF InsertAttempt, provider
    <2>2. request'[r] = Idle /\ \A s \in Request \ {r} : request'[s] = request[s]
      BY <2>1 DEF GoTo, Inductive, TypeOK
    <2>3. Reports(request[r])'
      BY <2>2 DEF Reports, Idle, Processing
    <2>4. \A a \in Attempt : Unrecorded(a)' => Unrecorded(a) /\ ~Records(r, a)
      BY <2>1 DEF Unrecorded, Records, NoAttempt, Inductive, TypeOK, RowsTypeOK
    <2>5. \A e \in ProviderEvent : ~Decides(r, e)
      BY <2>1 DEF Decides, Processing
    <2> QED BY <1>2, <2>2, <2>3, <2>4, <2>5, AccountedGoesOn
  <1> QED BY <1>3, <1>4

\* A delivery comes when nobody is at work: the attempt of its event is there, and an event
\* with a row that names no other amount has been accepted.
LEMMA AccountedReceived ==
  ASSUME Inductive, Inductive', Accounted, Serial, NEW r \in Request, NEW e \in ProviderEvent,
         ReceiveEvent(r, e)
  PROVE  Accounted'
  <1>1. Quiescent /\ UNCHANGED webhookRows
    BY DEF ReceiveEvent, Serve, tenantRows, provider, webhookRows
  <1>2. /\ \A a \in Attempt : ~Unrecorded(a)
        /\ \A f \in ProviderEvent : ~Undecided(f)
    BY <1>1 DEF Accounted, Quiescent, Records, Decides, Processing, Idle
  <1>3. notice[e] # NoNotice /\ notice[e].attempt \in Attempt /\ checkout[notice[e].attempt] # NoCheckout
    BY DEF ReceiveEvent, Inductive, RowsSound
  <1>4. attempt[notice[e].attempt] # NoAttempt /\ notice[e].attempt # None
    BY <1>2, <1>3, NoRow DEF Unrecorded
  <1>5. providerEvent[e] # "NONE" => Processed(e)
    BY <1>2, <1>3 DEF Undecided, Processed
  <1>6. PICK q : /\ Serve(r, q) /\ q.op = "webhook" /\ q.row = e
                 /\ \/ q.at = "insertEvent" /\ q.attempt = notice[e].attempt
                    \/ q.at = "answer" /\ providerEvent[e] # "NONE"
    <2>1. PICK at, b :
            /\ Serve(r, [Call("webhook", at) EXCEPT !.row = e, !.attempt = b])
            /\ \/ at = "insertEvent" /\ b = notice[e].attempt
               \/ at = "answer" /\ providerEvent[e] # "NONE"
      BY <1>4 DEF ReceiveEvent
    <2>2. PICK q : /\ q = [Call("webhook", at) EXCEPT !.row = e, !.attempt = b]
                   /\ Serve(r, q)
      BY <2>1
    <2>3. q.op = "webhook" /\ q.at = at /\ q.row = e /\ q.attempt = b
      BY <2>2 DEF Call, Idle
    <2> QED BY <2>1, <2>2, <2>3
  <1>7. /\ request[r].at = "idle" /\ request'[r] = q
        /\ \A s \in Request \ {r} : request'[s] = request[s]
    BY <1>6 DEF Serve, Inductive, TypeOK, Idle
  <1>8. /\ \A a \in Attempt : ~Unrecorded(a)'
        /\ \A f \in ProviderEvent : ~Undecided(f)' /\ (Processed(f) => Processed(f)')
        /\ \A f \in acknowledged' : f \in acknowledged
    BY <1>1, <1>2 DEF Unrecorded, Undecided, Processed, webhookRows
  <1>9. Reports(request[r])'
    BY <1>4, <1>5, <1>6, <1>7, <1>8 DEF Reports, Processing
  <1> QED BY <1>7, <1>8, <1>9, AccountedGoesOn

\* What is processed of an event, up to its result.
LEMMA AccountedProcessed ==
  ASSUME Inductive, Inductive', Accounted, NEW r \in Request,
         InsertEvent(r) \/ WriteAttempt(r) \/ BookPayment(r) \/ CloseEvent(r)
  PROVE  Accounted'
  <1>1. PICK q \in RequestRow : q = request[r] /\ Sound(q) /\ Reports(q)
    BY InFlightSound DEF Accounted
  <1>2. /\ q.at \in {"insertEvent"} \cup Processing /\ q.op = "webhook" /\ q.row \in ProviderEvent
        /\ q.attempt # None /\ q.attempt \in Attempt /\ attempt[q.attempt] # NoAttempt
        /\ q.at \in Processing => q.result = Verdict(q)
    BY <1>1 DEF InsertEvent, WriteAttempt, BookPayment, CloseEvent, Processing, Sound, WebhookSound,
                Reports, RequestRow
  <1>3. UNCHANGED <<checkout, notice, acknowledged>> /\ \A s \in Request \ {r} : request'[s] = request[s]
    BY <1>1 DEF InsertEvent, WriteAttempt, BookPayment, CloseEvent, GoTo, provider, Inductive, TypeOK
  <1>4. \A a \in Attempt : Unrecorded(a)' => Unrecorded(a) /\ ~Records(r, a)
    <2>1. attempt[q.attempt].invoice \in Invoice
      BY <1>2 DEF Inductive, RowsSound
    <2>2. \A a \in Attempt : attempt'[a] = attempt[a]
                             \/ (a = q.attempt /\ attempt'[a].invoice = attempt[a].invoice)
      BY <1>1, <1>2 DEF InsertEvent, WriteAttempt, BookPayment, CloseEvent, Inductive, TypeOK, RowsTypeOK,
                        AttemptRow
    <2>3. \A a \in Attempt : attempt'[a] = NoAttempt => attempt[a] = NoAttempt
      BY <2>1, <2>2, NoRow DEF NoAttempt
    <2> QED BY <1>1, <1>2, <1>3, <2>3 DEF Unrecorded, Records, Processing
  <1>5. \A f \in ProviderEvent \ {q.row} : providerEvent'[f] = providerEvent[f] /\ ~Decides(r, f)
    BY <1>1 DEF InsertEvent, WriteAttempt, BookPayment, CloseEvent, Decides, Inductive, TypeOK, RowsTypeOK
  <1>6. CASE InsertEvent(r) /\ providerEvent[q.row] # "NONE"
    <2>1. request'[r] = Idle /\ UNCHANGED providerEvent
      BY <1>1, <1>6 DEF InsertEvent, GoTo, Inductive, TypeOK
    <2>2. ~Decides(r, q.row)
      BY <1>1, <1>6 DEF InsertEvent, Decides, Processing
    <2>3. /\ \A f \in ProviderEvent : Undecided(f)' => Undecided(f) /\ ~Decides(r, f)
          /\ \A f \in ProviderEvent : Processed(f) => Processed(f)'
          /\ \A f \in acknowledged' : f \in acknowledged
      BY <1>3, <1>5, <2>1, <2>2 DEF Undecided, Processed
    <2>4. Reports(request[r])'
      BY <2>1 DEF Reports, Idle, Processing
    <2> QED BY <1>3, <1>4, <2>3, <2>4, AccountedGoesOn
  <1>7. CASE InsertEvent(r) /\ providerEvent[q.row] = "NONE"
    <2>1. PICK c : /\ c = [q EXCEPT !.result = Verdict(q),
                                    !.at = IF Verdict(q) = "ACCEPTED" THEN "writeAttempt" ELSE "closeEvent"]
                   /\ request'[r] = c
                   /\ providerEvent' = [providerEvent EXCEPT ![q.row] = "RECEIVED"]
      BY <1>1, <1>7 DEF InsertEvent, Inductive, TypeOK
    <2>2. c.at \in Processing /\ c.row = q.row /\ c.attempt = q.attempt
      BY <2>1 DEF RequestRow, Processing
    <2>3. Decides(r, q.row)' /\ Reports(request[r])'
      BY <1>2, <2>1, <2>2 DEF Decides, Reports, Processing
    <2>4. /\ \A f \in ProviderEvent : Undecided(f)' => Decides(r, f)' \/ (Undecided(f) /\ ~Decides(r, f))
          /\ \A f \in ProviderEvent : Processed(f) => Processed(f)'
          /\ \A f \in acknowledged' : f \in acknowledged
      BY <1>3, <1>5, <1>7, <2>3 DEF Undecided, Processed
    <2> QED BY <1>3, <1>4, <2>3, <2>4, AccountedGoesOn
  <1>8. CASE WriteAttempt(r) \/ BookPayment(r)
    <2>1. PICK at \in {"bookPayment", "closeEvent"} :
            request'[r] = [q EXCEPT !.at = at] /\ UNCHANGED providerEvent
      BY <1>1, <1>8 DEF WriteAttempt, BookPayment, GoTo, Inductive, TypeOK
    <2>2. request'[r].at \in Processing /\ request'[r].row = q.row /\ request'[r].attempt = q.attempt
      BY <2>1 DEF RequestRow, Processing
    <2>3. Decides(r, q.row)' /\ Reports(request[r])'
      BY <1>2, <2>2 DEF Decides, Reports, Processing
    <2>4. /\ \A f \in ProviderEvent : Undecided(f)' => Decides(r, f)' \/ (Undecided(f) /\ ~Decides(r, f))
          /\ \A f \in ProviderEvent : Processed(f) => Processed(f)'
          /\ \A f \in acknowledged' : f \in acknowledged
      BY <1>3, <1>5, <2>1, <2>3 DEF Undecided, Processed
    <2> QED BY <1>3, <1>4, <2>3, <2>4, AccountedGoesOn
  <1>9. CASE CloseEvent(r)
    <2>1. /\ q.at = "closeEvent" /\ providerEvent' = [providerEvent EXCEPT ![q.row] = q.result]
          /\ \E at \in {"countOutstanding", "answer"} : request'[r] = [q EXCEPT !.at = at]
      BY <1>1, <1>9 DEF CloseEvent, GoTo, Inductive, TypeOK
    <2>2. q.result = IF notice[q.row].amount # "other" THEN "ACCEPTED" ELSE "REJECTED"
      BY <1>2, <2>1 DEF Processing, Verdict
    <2>3. providerEvent'[q.row] = q.result
      BY <1>2, <2>1 DEF Inductive, TypeOK, RowsTypeOK
    <2>4. Processed(q.row)' /\ ~Undecided(q.row)'
      BY <1>3, <2>2, <2>3 DEF Processed, Undecided
    <2>5. request'[r].at \in {"countOutstanding", "answer"} /\ request'[r].row = q.row
      BY <2>1 DEF RequestRow
    <2>6. Reports(request[r])'
      BY <2>4, <2>5 DEF Reports, Processing
    <2>7. /\ \A f \in ProviderEvent : Undecided(f)' => Undecided(f) /\ ~Decides(r, f)
          /\ \A f \in ProviderEvent : Processed(f) => Processed(f)'
          /\ \A f \in acknowledged' : f \in acknowledged
      BY <1>3, <1>5, <2>4 DEF Undecided, Processed
    <2> QED BY <1>3, <1>4, <2>6, <2>7, AccountedGoesOn
  <1> QED BY <1>6, <1>7, <1>8, <1>9

\* What is answered has been processed.
LEMMA AccountedAnswered ==
  ASSUME Inductive, Inductive', Accounted, NEW r \in Request, Answer(r)
  PROVE  Accounted'
  <1>1. PICK q \in RequestRow : q = request[r] /\ Sound(q) /\ Reports(q)
    BY InFlightSound DEF Accounted
  <1>2. /\ q.at = "answer" /\ request'[r] = Idle
        /\ \A s \in Request \ {r} : request'[s] = request[s]
        /\ acknowledged' = acknowledged \cup {q.row}
        /\ UNCHANGED <<attempt, checkout, notice, providerEvent>>
    BY <1>1 DEF Answer, GoTo, tenantRows, Inductive, TypeOK
  <1>3. Processed(q.row)
    BY <1>1, <1>2 DEF Sound, WebhookSound, Reports, Processing
  <1>4. Reports(request[r])'
    BY <1>2 DEF Reports, Idle, Processing
  <1>5. /\ \A a \in Attempt : Unrecorded(a)' => Unrecorded(a) /\ ~Records(r, a)
        /\ \A e \in ProviderEvent : Undecided(e)' => Undecided(e) /\ ~Decides(r, e)
        /\ \A e \in ProviderEvent : Processed(e) => Processed(e)'
        /\ \A e \in acknowledged' : e \in acknowledged \/ Processed(e)'
    BY <1>1, <1>2, <1>3 DEF Unrecorded, Records, Undecided, Decides, Processing, Processed
  <1> QED BY <1>2, <1>4, <1>5, AccountedGoesOn

LEMMA NextAccounted ==
  ASSUME Inductive, Inductive', Accounted, Serial, ~MayCrash, [Next]_vars
  PROVE  Accounted'
  <1>1. CASE UNCHANGED vars
    BY <1>1 DEF vars, tenantRows, provider, Accounted, Unrecorded, Records, Undecided, Decides,
                Processed, Reports
  <1>2. CASE SubscriptionNext \/ InvoiceNext
    <2>1. UNCHANGED webhookRows /\ (UNCHANGED request \/ \E r \in Request : Elsewhere(r))
      BY <1>2, AccountElsewhere DEF Inductive
    <2>2. CASE UNCHANGED request
      BY <2>1, <2>2 DEF webhookRows, Accounted, Unrecorded, Records, Undecided, Decides, Processed,
                        Reports
    <2> QED BY <2>1, <2>2, AccountedElsewhere
  <1>3. ASSUME NEW r \in Request, RecordManualPayment(r) \/ BookManual(r)
        PROVE  Accounted'
    <2>1. UNCHANGED webhookRows
      BY <1>3 DEF RecordManualPayment, BookManual, tenantRows, provider, webhookRows
    <2>2. CASE RecordManualPayment(r)
      <3>1. PICK i \in Invoice : Serve(r, [Call("manual", "bookManual") EXCEPT !.invoice = i])
        BY <2>2 DEF RecordManualPayment
      <3>2. /\ [Call("manual", "bookManual") EXCEPT !.invoice = i].op = "manual"
            /\ [Call("manual", "bookManual") EXCEPT !.invoice = i].at = "bookManual"
        BY DEF Call, Idle
      <3>3. Elsewhere(r)
        BY <3>1, <3>2, ServedElsewhere DEF Inductive, Processing
      <3> QED BY <2>1, <3>3, AccountedElsewhere
    <2>3. CASE BookManual(r)
      <3>1. request[r].at = "bookManual" /\ \E at \in {"countOutstanding", "idle"} : GoTo(r, at)
        BY <2>3 DEF BookManual
      <3>2. Elsewhere(r)
        BY <3>1, GoesElsewhere DEF Inductive, Processing
      <3> QED BY <2>1, <3>2, AccountedElsewhere
    <2> QED BY <1>3, <2>2, <2>3
  <1>4. CASE PaymentNext
    BY <1>3, <1>4, AccountedAnnounced, AccountedInitiated, AccountedReceived, AccountedProcessed,
       AccountedAnswered DEF PaymentNext
  <1>5. ASSUME NEW r \in Request, Crash(r) PROVE FALSE
    BY <1>5 DEF Crash
  <1> QED BY <1>1, <1>2, <1>4, <1>5 DEF Next

\* Of AcknowledgedIsBooked (payment-repository.ts: a DUPLICATE is "a genuine duplicate
\* delivery of an event already processed"): among requests served one at a time only a
\* death can make it false, as the one after the insert of the event does.
THEOREM AnswersAreBooked == Serial /\ ~MayCrash => (Spec => []AcknowledgedIsBooked)
  <1> SUFFICES ASSUME Serial, ~MayCrash PROVE Spec => []AcknowledgedIsBooked
    OBVIOUS
  <1>1. Init => Accounted
    BY DEF Init, Accounted, Unrecorded, Undecided, NoCheckout, Reports, Idle, Processing
  <1>2. Inductive /\ Inductive' /\ Accounted /\ [Next]_vars => Accounted'
    BY NextAccounted
  <1>3. Inductive /\ Accounted => AcknowledgedIsBooked
    BY DEF Inductive, TypeOK, RowsTypeOK, Safe, AcceptedIsBooked, Accounted, Processed,
           AcknowledgedIsBooked
  <1> QED BY <1>1, <1>2, <1>3, AlwaysInductive, PTL DEF Spec

-------------------------------------------------------------------------------
(***************************************************************************)
(* Lifted suspensions.  Only a new invoice is on its way to activate the   *)
(* subscription; whoever restores it has counted no invoice outstanding,   *)
(* and one at a time none has been issued since.                           *)
(***************************************************************************)
Lifting == {"insertInvoice", "activate", "restore", "writeActive"}
Bills(q) == q.op \in {"generate", "cycle"}
Owing == \E i \in Invoice : invoice[i].status \in {"ISSUED", "OVERDUE"}

MayLift(q) ==
  /\ q.at \in {"insertInvoice", "activate"} => Bills(q)
  /\ q.at = "restore" => ~Owing
  /\ q.at = "writeActive" => Bills(q) \/ q.op = "adminRestore" \/ ~Owing

\* Nobody else is in flight, and this request is not about to write ACTIVE, or may.
LEMMA LiftingMoves ==
  ASSUME TypeOK, NEW r \in Request, OthersIdle(r),
         \A s \in Request \ {r} : request'[s] = request[s], MayLift(request[r])'
  PROVE  \A s \in Request : MayLift(request[s])'
  <1>1. \A s \in Request \ {r} : request'[s] = Idle
    BY DEF OthersIdle
  <1> QED BY <1>1 DEF MayLift, Idle, Bills

LEMMA LiftingGoesTo ==
  ASSUME TypeOK, OneAtATime, NEW r \in Request, request[r].at # "idle",
         NEW at, GoTo(r, at), at \notin Lifting
  PROVE  \A s \in Request : MayLift(request[s])'
  <1>1. /\ request'[r] = (IF at = "idle" THEN Idle ELSE [request[r] EXCEPT !.at = at])
        /\ \A s \in Request \ {r} : request'[s] = request[s] /\ request[r] \in RequestRow
    BY DEF GoTo, TypeOK
  <1>2. request'[r].at = at
    BY <1>1 DEF TypeOK, RequestRow, Idle
  <1>3. MayLift(request[r])'
    BY <1>2 DEF MayLift, Lifting
  <1> QED BY <1>1, <1>3, AloneInFlight, LiftingMoves

\* The request goes on to a statement that may lift the suspension.
LEMMA LiftingGoesOn ==
  ASSUME TypeOK, OneAtATime, NEW r \in Request, request[r].at # "idle",
         NEW at \in Lifting, GoTo(r, at),
         CASE at = "writeActive" -> Bills(request[r]) \/ ~Owing'
           [] at = "restore" -> ~Owing'
           [] OTHER -> Bills(request[r])
  PROVE  \A s \in Request : MayLift(request[s])'
  <1>1. /\ request[r] \in RequestRow /\ request'[r] = [request[r] EXCEPT !.at = at]
        /\ \A s \in Request \ {r} : request'[s] = request[s]
    BY DEF GoTo, TypeOK, Lifting
  <1>2. request'[r].at = at /\ request'[r].op = request[r].op
    BY <1>1 DEF RequestRow
  <1>3. MayLift(request[r])'
    BY <1>2 DEF MayLift, Bills, Owing, Lifting
  <1> QED BY <1>1, <1>3, AloneInFlight, LiftingMoves

LEMMA LiftingServed ==
  ASSUME TypeOK, Serial, NEW r \in Request, NEW q, Serve(r, q), q.at \notin Lifting \/ MayLift(q)'
  PROVE  \A s \in Request : MayLift(request[s])'
  <1>1. request'[r] = q /\ \A s \in Request \ {r} : request'[s] = request[s]
    BY DEF Serve, TypeOK
  <1>2. MayLift(request[r])'
    BY <1>1 DEF MayLift, Lifting, Bills
  <1> QED BY <1>1, <1>2, AloneServed, LiftingMoves

LEMMA AfterwardsLifts == ASSUME NEW q PROVE Afterwards(q) \notin Lifting
  BY DEF Afterwards, Lifting

LEMMA SubscriptionLifts ==
  ASSUME TypeOK, OneAtATime, Serial, \A r \in Request : MayLift(request[r]), SubscriptionNext
  PROVE  \A r \in Request : MayLift(request[r])'
  <1>1. PICK r \in Request :
          \/ ActivateSubscription(r) \/ CountOutstanding(r) \/ RestoreSubscription(r)
          \/ WriteActive(r) \/ MarkTenantPastDue(r) \/ WritePastDue(r)
          \/ SweepSuspensions(r) \/ SuspendSubscription(r) \/ WriteSuspended(r)
          \/ AdminSuspend(r) \/ AdminRestore(r)
    BY DEF SubscriptionNext
  <1>2. PICK q \in RequestRow : q = request[r] /\ MayLift(q)
    BY DEF TypeOK
  <1>3. CASE AdminSuspend(r)
    <2>1. Call("adminSuspend", "writeSuspended").at = "writeSuspended"
      BY DEF Call, Idle
    <2> QED BY <1>3, <2>1, LiftingServed DEF AdminSuspend, Lifting
  <1>4. CASE AdminRestore(r)
    <2>1. MayLift(Call("adminRestore", "writeActive"))'
      BY DEF Call, Idle, MayLift
    <2> QED BY <1>4, <2>1, LiftingServed DEF AdminRestore
  <1>5. CASE ActivateSubscription(r)
    <2>1. request[r].at # "idle" /\ Bills(q)
      BY <1>2, <1>5 DEF ActivateSubscription, MayLift
    <2>2. GoTo(r, "writeActive") \/ GoTo(r, Afterwards(q))
      BY <1>2, <1>5 DEF ActivateSubscription
    <2> QED BY <1>2, <2>1, <2>2, AfterwardsLifts, LiftingGoesTo, LiftingGoesOn
  <1>6. CASE CountOutstanding(r)
    <2>1. request[r].at # "idle" /\ UNCHANGED invoice
      BY <1>6 DEF CountOutstanding, otherRows
    <2>2. GoTo(r, Afterwards(q)) \/ (GoTo(r, "restore") /\ ~Owing')
      BY <1>2, <1>6, <2>1 DEF CountOutstanding, Owing
    <2> QED BY <1>2, <2>1, <2>2, AfterwardsLifts, LiftingGoesTo, LiftingGoesOn
  <1>7. CASE RestoreSubscription(r)
    <2>1. request[r].at # "idle" /\ ~Owing'
      BY <1>2, <1>7 DEF RestoreSubscription, MayLift, otherRows, Owing
    <2>2. GoTo(r, "writeActive") \/ GoTo(r, Afterwards(q))
      BY <1>2, <1>7 DEF RestoreSubscription
    <2> QED BY <1>2, <2>1, <2>2, AfterwardsLifts, LiftingGoesTo, LiftingGoesOn
  <1>8. CASE \/ WriteActive(r) \/ MarkTenantPastDue(r) \/ WritePastDue(r)
             \/ SweepSuspensions(r) \/ SuspendSubscription(r) \/ WriteSuspended(r)
    <2>1. /\ request[r].at # "idle"
          /\ \E at : GoTo(r, at) /\ (at = Afterwards(request[r]) \/ at \in Plain \ Lifting)
      BY <1>8 DEF WriteActive, MarkTenantPastDue, WritePastDue, SweepSuspensions,
         SuspendSubscription, WriteSuspended, NextOverdue, Plain, Lifting
    <2> QED BY <2>1, AfterwardsLifts, LiftingGoesTo
  <1> QED BY <1>1, <1>3, <1>4, <1>5, <1>6, <1>7, <1>8

\* An invoice is on its way to be inserted for a month only, and the clock makes none owed.
LEMMA InvoiceLifts ==
  ASSUME TypeOK, OneRun, OneAtATime, Serial, \A r \in Request : MayLift(request[r]), InvoiceNext
  PROVE  \A r \in Request : MayLift(request[r])'
  <1>1. ASSUME NEW i \in Invoice, InvoiceAges(i)
        PROVE  \A r \in Request : MayLift(request[r])'
    <2>1. UNCHANGED request /\ \A j \in Invoice : invoice'[j].status = invoice[j].status
      BY <1>1 DEF InvoiceAges, TypeOK, RowsTypeOK, InvoiceRow
    <2> QED BY <2>1 DEF MayLift, Bills, Owing
  <1>2. ASSUME NEW r \in Request,
               BeginCycle(r) \/ GenerateInvoice(r) \/ VoidInvoice(r) \/ ReissueInvoice(r)
        PROVE  \A s \in Request : MayLift(request[s])'
    <2>1. PICK op \in {"cycle", "generate", "void", "reissue"},
               at \in {"findInvoice", "insertInvoice", "writeVoid", "insertReissue"} :
            /\ \/ \E p \in Period : Serve(r, [Call(op, at) EXCEPT !.period = p])
               \/ \E i \in Invoice : Serve(r, [Call(op, at) EXCEPT !.invoice = i])
            /\ at \notin Lifting \/ (op = "generate" /\ at = "insertInvoice")
      BY <1>2 DEF BeginCycle, GenerateInvoice, VoidInvoice, ReissueInvoice, Lifting
    <2>2. \A x : /\ [Call(op, at) EXCEPT !.period = x].op = op
                 /\ [Call(op, at) EXCEPT !.period = x].at = at
                 /\ [Call(op, at) EXCEPT !.invoice = x].op = op
                 /\ [Call(op, at) EXCEPT !.invoice = x].at = at
      BY DEF Call, Idle
    <2>3. PICK q : Serve(r, q) /\ q.op = op /\ q.at = at
      BY <2>1, <2>2
    <2>4. q.at \notin Lifting \/ MayLift(q)'
      BY <2>1, <2>3 DEF MayLift, Bills
    <2> QED BY <2>3, <2>4, LiftingServed
  <1>3. ASSUME NEW r \in Request, FindInvoice(r) \/ InsertInvoice(r)
        PROVE  \A s \in Request : MayLift(request[s])'
    <2>1. PICK q \in RequestRow : q = request[r] /\ MayLift(q) /\ (q.at \in RunStep => q.op = "cycle")
      BY DEF TypeOK, OneRun, InRun
    <2>2. q.at # "idle" /\ Bills(q)
      BY <1>3, <2>1 DEF FindInvoice, InsertInvoice, RunStep, MayLift, Bills
    <2>3. \/ \E at \in {"insertInvoice", "activate"} : GoTo(r, at)
          \/ \E at \in {"findOverdue", Afterwards(q)} : GoTo(r, at)
      BY <1>3, <2>1 DEF FindInvoice, InsertInvoice
    <2>4. {"findOverdue", Afterwards(q)} \cap Lifting = {}
      BY AfterwardsLifts DEF Lifting
    <2> QED BY <2>1, <2>2, <2>3, <2>4, LiftingGoesTo, LiftingGoesOn
  <1>4. ASSUME NEW r \in Request, CloseRun(r) \/ WriteVoid(r) \/ InsertReissue(r)
        PROVE  \A s \in Request : MayLift(request[s])'
    <2>1. request[r].at # "idle" /\ GoTo(r, "idle")
      BY <1>4 DEF CloseRun, WriteVoid, InsertReissue
    <2> QED BY <2>1, LiftingGoesTo DEF Lifting
  <1>5. ASSUME NEW r \in Request, FindOverdue(r) \/ MarkOverdue(r)
        PROVE  \A s \in Request : MayLift(request[s])'
    <2>1. request[r] \in RequestRow /\ request[r].at # "idle"
      BY <1>5 DEF FindOverdue, MarkOverdue, TypeOK
    <2>2. PICK due : \E at \in {"sweep", "markOverdue", "markPastDue"} :
            request' = [request EXCEPT ![r].due = due, ![r].at = at]
      BY <1>5 DEF FindOverdue, MarkOverdue
    <2>3. PICK at \in {"sweep", "markOverdue", "markPastDue"} :
            /\ request'[r] = [request[r] EXCEPT !.due = due, !.at = at]
            /\ \A s \in Request \ {r} : request'[s] = request[s]
      BY <2>1, <2>2 DEF TypeOK
    <2>4. request'[r].at = at
      BY <2>1, <2>3 DEF RequestRow
    <2>5. MayLift(request[r])'
      BY <2>4 DEF MayLift
    <2> QED BY <2>1, <2>3, <2>5, AloneInFlight, LiftingMoves
  <1> QED BY <1>1, <1>2, <1>3, <1>4, <1>5 DEF InvoiceNext

\* No statement of a payment activates anything.
LEMMA PaymentLifts ==
  ASSUME Inductive, OneAtATime, Serial, \A r \in Request : MayLift(request[r]), PaymentNext
  PROVE  \A r \in Request : MayLift(request[r])'
  <1> USE DEF Inductive
  <1>1. CASE (\E a \in Attempt : SettleCheckout(a)) \/ (\E e \in ProviderEvent : Announce(e))
    <2>1. UNCHANGED <<request, invoice>>
      BY <1>1 DEF SettleCheckout, Announce, tenantRows
    <2> QED BY <2>1 DEF MayLift, Bills, Owing
  <1>2. ASSUME NEW r \in Request,
               \/ InitiatePayment(r) \/ RecordManualPayment(r)
               \/ \E e \in ProviderEvent : ReceiveEvent(r, e)
        PROVE  \A s \in Request : MayLift(request[s])'
    <2>1. CASE InitiatePayment(r)
      <3>1. PICK i \in Invoice, b \in Attempt :
              Serve(r, [Call("initiate", "insertAttempt") EXCEPT !.invoice = i, !.attempt = b])
        BY <2>1 DEF InitiatePayment
      <3>2. PICK q : /\ q = [Call("initiate", "insertAttempt") EXCEPT !.invoice = i, !.attempt = b]
                     /\ Serve(r, q)
        BY <3>1
      <3>3. q.at = "insertAttempt"
        BY <3>2 DEF Call, Idle
      <3> QED BY <3>2, <3>3, LiftingServed DEF Lifting
    <2>2. CASE RecordManualPayment(r)
      <3>1. PICK i \in Invoice : Serve(r, [Call("manual", "bookManual") EXCEPT !.invoice = i])
        BY <2>2 DEF RecordManualPayment
      <3>2. PICK q : /\ q = [Call("manual", "bookManual") EXCEPT !.invoice = i]
                     /\ Serve(r, q)
        BY <3>1
      <3>3. q.at = "bookManual"
        BY <3>2 DEF Call, Idle
      <3> QED BY <3>2, <3>3, LiftingServed DEF Lifting
    <2>3. ASSUME NEW e \in ProviderEvent, ReceiveEvent(r, e)
          PROVE  \A s \in Request : MayLift(request[s])'
      <3>1. PICK at, b :
              /\ Serve(r, [Call("webhook", at) EXCEPT !.row = e, !.attempt = b])
              /\ at \in {"insertEvent", "answer"}
        BY <2>3 DEF ReceiveEvent
      <3>2. PICK q : /\ q = [Call("webhook", at) EXCEPT !.row = e, !.attempt = b]
                     /\ Serve(r, q)
        BY <3>1
      <3>3. q.at = at
        BY <3>2 DEF Call, Idle
      <3> QED BY <3>1, <3>2, <3>3, LiftingServed DEF Lifting
    <2> QED BY <1>2, <2>1, <2>2, <2>3
  <1>3. ASSUME NEW r \in Request,
               InsertAttempt(r) \/ WriteAttempt(r) \/ BookPayment(r) \/ CloseEvent(r) \/ Answer(r) \/ BookManual(r)
        PROVE  \A s \in Request : MayLift(request[s])'
    <2>1. /\ request[r].at # "idle"
          /\ \E at \in {"idle", "bookPayment", "closeEvent", "countOutstanding", "answer"} : GoTo(r, at)
      BY <1>3 DEF InsertAttempt, WriteAttempt, BookPayment, CloseEvent, Answer, BookManual
    <2> QED BY <2>1, LiftingGoesTo DEF Lifting
  <1>4. ASSUME NEW r \in Request, InsertEvent(r)
        PROVE  \A s \in Request : MayLift(request[s])'
    <2>1. request[r] \in RequestRow /\ request[r].at # "idle"
      BY <1>4 DEF InsertEvent, TypeOK
    <2>2. CASE GoTo(r, "idle")
      BY <2>1, <2>2, LiftingGoesTo DEF Lifting
    <2>3. CASE ~GoTo(r, "idle")
      <3>1. PICK result : \E at \in {"writeAttempt", "closeEvent"} :
              request' = [request EXCEPT ![r].result = result, ![r].at = at]
        BY <1>4, <2>3 DEF InsertEvent
      <3>2. PICK at \in {"writeAttempt", "closeEvent"} :
              /\ request'[r] = [request[r] EXCEPT !.result = result, !.at = at]
              /\ \A s \in Request \ {r} : request'[s] = request[s]
        BY <2>1, <3>1 DEF TypeOK
      <3>3. request'[r].at = at
        BY <2>1, <3>2 DEF RequestRow
      <3>4. MayLift(request[r])'
        BY <3>3 DEF MayLift
      <3> QED BY <2>1, <3>2, <3>4, AloneInFlight, LiftingMoves
    <2> QED BY <2>2, <2>3
  <1> QED BY <1>1, <1>2, <1>3, <1>4 DEF PaymentNext

LEMMA NextLifts ==
  ASSUME Inductive, OneRun, OneAtATime, Serial, \A r \in Request : MayLift(request[r]), [Next]_vars
  PROVE  \A r \in Request : MayLift(request[r])'
  <1>1. ASSUME NEW r \in Request, Crash(r) PROVE \A s \in Request : MayLift(request[s])'
    <2>1. GoTo(r, "idle") /\ (request[r].at # "idle" \/ request[r].at = "idle")
      BY <1>1 DEF Crash
    <2>2. request'[r] = Idle /\ \A s \in Request \ {r} : request'[s] = request[s]
      BY <2>1 DEF GoTo, Inductive, TypeOK
    <2>3. OthersIdle(r)
      BY <1>1 DEF Crash, OneAtATime, Alone, OthersIdle
    <2>4. MayLift(request[r])'
      BY <2>2 DEF MayLift, Idle
    <2> QED BY <2>2, <2>3, <2>4, LiftingMoves DEF Inductive
  <1>2. CASE UNCHANGED vars
    BY <1>2 DEF vars, tenantRows, MayLift, Bills, Owing
  <1> QED BY <1>1, <1>2, SubscriptionLifts, InvoiceLifts, PaymentLifts DEF Next, Inductive

\* activateTenantSubscription (subscription-repository.ts:102): one at a time, and wherever
\* requests die, a suspension is lifted by a new invoice, by the administrator, or when no
\* invoice is outstanding.  That a new invoice lifts it is what violates
\* SuspensionLastsWhileOwing, and it is the only thing that does.
THEOREM SuspensionsAreLifted ==
  Serial => (Spec =>
    [][subscription = "SUSPENDED" /\ subscription' = "ACTIVE" =>
         \/ \E r \in Request : request[r].op \in {"generate", "cycle", "adminRestore"}
         \/ \A i \in Invoice : invoice[i].status \notin {"ISSUED", "OVERDUE"}]_vars)
  <1> SUFFICES ASSUME Serial
               PROVE  Spec =>
                 [][subscription = "SUSPENDED" /\ subscription' = "ACTIVE" =>
                      \/ \E r \in Request : request[r].op \in {"generate", "cycle", "adminRestore"}
                      \/ \A i \in Invoice : invoice[i].status \notin {"ISSUED", "OVERDUE"}]_vars
    OBVIOUS
  <1> DEFINE Lifts == \A r \in Request : MayLift(request[r])
  <1>1. Init => Lifts
    BY DEF Init, MayLift, Idle
  <1>2. Inductive /\ OneRun /\ OneAtATime /\ Lifts /\ [Next]_vars => Lifts'
    BY NextLifts
  <1>3. Inductive /\ OneRun /\ Lifts /\ [Next]_vars =>
          [subscription = "SUSPENDED" /\ subscription' = "ACTIVE" =>
             \/ \E r \in Request : request[r].op \in {"generate", "cycle", "adminRestore"}
             \/ \A i \in Invoice : invoice[i].status \notin {"ISSUED", "OVERDUE"}]_vars
    <2> SUFFICES ASSUME Inductive, OneRun, Lifts, Next,
                        subscription = "SUSPENDED", subscription' = "ACTIVE"
                 PROVE  \/ \E r \in Request : request[r].op \in {"generate", "cycle", "adminRestore"}
                        \/ \A i \in Invoice : invoice[i].status \notin {"ISSUED", "OVERDUE"}
      OBVIOUS
    <2>1. PICK r \in Request : WriteActive(r)
      <3>1. CASE SubscriptionNext
        BY <3>1 DEF SubscriptionNext, ActivateSubscription, CountOutstanding, RestoreSubscription,
           MarkTenantPastDue, WritePastDue, SweepSuspensions, SuspendSubscription, WriteSuspended,
           AdminSuspend, AdminRestore
      <3>2. CASE InvoiceNext
        BY <3>2 DEF InvoiceNext, BeginCycle, CloseRun, GenerateInvoice, FindInvoice, InsertInvoice,
           FindOverdue, MarkOverdue, InvoiceAges, VoidInvoice, WriteVoid, ReissueInvoice,
           InsertReissue, noInvoiceRow
      <3>3. CASE PaymentNext
        BY <3>3, PaymentNextRuns DEF Inductive
      <3>4. ASSUME NEW r \in Request, Crash(r) PROVE FALSE
        BY <3>4 DEF Crash, tenantRows
      <3> QED BY <3>1, <3>2, <3>3, <3>4 DEF Next
    <2> QED BY <2>1 DEF WriteActive, MayLift, Bills, Owing
  <1> QED BY <1>1, <1>2, <1>3, AlwaysInductive, RunsAreAlone, AlwaysOneAtATime, PTL DEF Spec

================================================================================
