# Fleet governance in TLA+: the gate, billing, evidence and operations

This directory specifies, model-checks and proves properties of the server side of the
Fleet Governance System: a multi-tenant TypeScript application (Next.js routes over
repository functions over PostgreSQL through Prisma) that authorises vehicle movements,
processes vehicles at gates, reconciles departures with returns, keeps the evidence of what
happened, investigates it, and bills for it.

## 1. How the program runs, and what makes it hard

Every request is handled by a Node process that awaits one database statement after the
other. There is rarely a transaction around a handler, no row lock and no version column: a
handler reads a row, decides, and later updates the row *by its id*, whatever has become of it
in between. PostgreSQL runs each statement under READ COMMITTED, inside a `$transaction`
block too, so a transaction that starts by reading may write on stale grounds as well; what it
gives is that its writes come together. So the interesting behaviours are

* two requests interleaving statement by statement, each acting on what it read before;
* a request that dies between two statements and leaves the first half of its work;
* a request refused half-way through, after an earlier statement was already written;
* an object store or a provider that fails between two statements about it;
* chains of legal calls that end where nobody meant to go.

What the code does rely on are unique indexes, and several properties below are theirs.

## 2. Inventory

| Component | State | Operations | Hard parts | Properties that make it correct |
|---|---|---|---|---|
| Movement authorisations (`movement-repository.ts`, `movements/state-machine.ts`) | status, requester, approver | create, submit, approve, reject, cancel; start and complete, called by the gate | check-then-update by id | the approver is not the requester; under way only through the gate |
| Fleet availability (`driver-repository.ts`, `vehicle-repository.ts`) | status, archivedAt | status change, archive | read by others, changed at any time | a locked-out vehicle is not cleared |
| Gate events (`gate-event-repository.ts`, `gate-events/state-machine.ts`) | status, decision, direction, identity columns, completedAt | start, clear, deny, complete, cancel, each through `transitionGateEvent` | duplicate starts, late updates, lost follow-ups | one open event per movement; decision agrees with status |
| Identity at the gate (same file, `facial-verification-repository.ts`) | attempts by idempotency key, fallback requests | provider call, on-device and synthetic attempt, fallback request, answer, use | slow providers, retries, a rate limit counted before the insert | a second user behind every fallback; the limit |
| Inspection and exceptions (same file) | item outcomes, exceptions | record an item, raise, escalate, resolve | resolution written before the transition is checked | no self-resolution; failures are raised; blocking outcomes deny |
| Reconciliation pairing (`reconciliation-repository.ts`) | one pair of legs per movement | build for a movement, build for a pair, exceptions for HIGH discrepancies | racing builds, legs ordered by `completedAt` | the pair is out and back; a completed journey is paired |
| Discrepancy resolution (same file) | discrepancies, derived status | resolve | count after update, status written later | RESOLVED exactly once every discrepancy is |
| Mobile idempotency (`mobile/idempotency.ts`) | receipts | claim, look up, run, complete or release | a death between any two, a call that throws half-way, one key for two contents | at most one completed run per key and nothing after it; replays answer alike; a request settles |
| Background jobs (`jobs/run-job.ts`) | JobRun rows | claim under a partial unique index, finish | dead runners | one run of a job at a time |
| Notifications (`retention-notification-`, `investigation-notification-repository.ts`) | records with attempts and back-off | generate, queue, deliver in groups, retry | a provider that delivered and a run that failed or died before saying so | a notice said to be sent was delivered; three tries, but for those a failing run did not record; all settle |
| Subscriptions (`subscription-repository.ts`) | status | activate, mark past due, sweep and suspend, restore | check-then-update, called from invoices, payments and the job | suspended only when due, and until resolved; restored once all is paid |
| Invoices and the recurring cycle (`invoice-`, `recurring-billing-repository.ts`) | status, period, reissue link | generate, mark overdue, void, reissue | two generators, updates by id after a list query | one invoice per period; overdue follows issued |
| Payments and the webhook (`payment-repository.ts`, `payment-provider.ts`) | attempts, provider events, payments | checkout, webhook, manual payment | duplicate, early and out-of-order events, a death inside one, racing payers | PAID means booked; booked means announced; announced ends as booked |
| Billing e-mails (`billing-email-repository.ts`) | deliveries behind a partial unique index | follow-up of a payment, resend | several processes learn of one payment; the choice of a contact | one e-mail per payment, to the recipient on record |
| Media assets (`media-asset-repository.ts`) | rows and objects in a bucket | upload, initiate and confirm, clean up, replace | two stores without a common transaction; racing confirmations; uploads that come late or twice | a READY file has its object; what is deleted leaves none |
| Retention and deletion (`retention-repository.ts`, `retention/deletion-rules.ts`) | holds, deletion requests, certificates | archive, hold, request, approve, refuse, complete after a recovery period | holds placed late, partial completion, crossing answers | nothing is erased by one user, or while held; the certificate lists what is gone |
| Investigations (`investigation-*-repository.ts`) | cases, findings, evidence links, the hold of a case | open, refer, assign, submit, approve, return, close, reopen; link, release the hold | two updates per finding; a sweep over links | evidence of a held case is held; two users per finding and release |
| Facial enrolment (`facial-enrolment-`, `biometric-deletion-repository.ts`) | versions of a template, deletion requests | enrol, revoke, request, approve, refuse, complete | re-enrolment before completion | one active version; erased by two users |
| Telematics (`telematics-repository.ts`, `tracker-mapping-repository.ts`) | episodes of violations, GPS status, effective-dated mappings | sync, evaluate, create, end and correct a mapping | stale reads of episodes; columns of the vehicle as a copy | an episode is a streak; trackers and vehicles pair one to one |
| Analytics (`analytics-*-repository.ts`) | versions of a rule, indicators, their events | activate, calculate, review, dismiss, reopen, escalate | two calculations of one window, updates of a reviewed indicator, two referrals | an indicator is explained by the version it quotes; its events lead to its status |
| Support and auditor access, sessions, permissions | grants, sessions | open, elevate, revoke, expire | expiry against use | access ends when its grant does |
| Pricing, ratings, dashboards, PDFs, UI, tooling | - | arithmetic, read-only queries, layout | - | - |

Components interact through shared tables and direct calls: generating an invoice activates
the subscription, a payment counts the invoices left and restores it, the recurring job bills,
marks overdue and suspends, all on the same two rows without a lock; `clearGateEvent` calls
`startMovement`, `completeGateEvent` calls `completeMovement` and `buildReconciliation`,
which inserts exceptions on the return leg; the fallback and the availability tables are
read by the gate and written by their own handlers. A deletion request reads the holds that
investigations put on files and the exceptions of the gate event a file belongs to; findings
move their case. `PROJECT.json` lists every component with what is modelled of it, and every
hazard at its line.

## 3. Modules

    GateStates          the two status tables, shared by the abstract and the detailed side
      VisitLifecycle    abstract: what the workflow promises, without requests
      GateData          tables, requests in flight, the crash of a request
        Movements       movement-repository.ts, availability of driver and vehicle
          GateEvents    gate-event-repository.ts: start, decide, complete
            Identity    the identity check and the manual fallback
              Exceptions   inspection, raising, escalating, resolving
                Pairing    reconciliation-repository.ts: buildReconciliation
                  GateOperations   Next, Spec, all properties, the refinement
                    MCGate, MCGateScenarios   instances for TLC
                    GateLemmas     the inductive invariant, one lemma per statement
                      GateProofs     the theorems
                        ScenarioProofs   the theorems for MCGateScenarios

      BillingData         billing tables, the provider's checkouts and events, requests, crashes
      AccountLifecycle    abstract: what billing promises, without handlers
        Subscriptions     subscription-repository.ts
          Invoices        invoice-repository.ts, the recurring cycle, runJob
            Payments      payment-repository.ts, the webhook route, the provider
              Billing     Next, Spec, FairSpec, all properties, the refinement
                MCBilling         instances for TLC
                BillingProofs     the inductive invariant and what follows from it
                  DunningProofs     the job, and requests served one at a time

      EvidenceData        files, objects, deletion requests, cases, links, findings, requests
      Custody             abstract: what the evidence store promises of every file
        MediaAssets       media-asset-repository.ts
          Retention       retention-repository.ts, deletion-rules.ts
            EvidenceHolds     links, and the hold of a case with its release
              InvestigationCases   cases, referral, findings
                Evidence      Next, Spec, all properties, the refinement
                  MCEvidence         regimes and instances for TLC
                  EvidenceProofs     the inductive invariants and the theorems

      OperationsData      requests in flight for eight components that share no table
        OnceOnly          abstract: what an idempotency key promises
        MobileReceipts    mobile/idempotency.ts
        Biometrics        facial-enrolment- and biometric-deletion-repository.ts
        Discrepancies     reconciliation-repository.ts: resolveDiscrepancy
        Notices           run-job.ts and the two notification repositories
        BillingEmails     billing-email-repository.ts
        Telematics        telematics-repository.ts: a sync and its exceptions
        Analytics         rules, calculations, indicators, escalation
        Trackers          tracker-mapping-repository.ts
          MCOperations      the eight side by side, for TLC
          OperationsProofs  the eight one by one
            SideBySideProofs  the eight as MCOperations puts them

The gate and billing meet in one place only: `createMovement` refuses a tenant whose
subscription is SUSPENDED. The gate and the evidence meet where a file belongs to a gate
event: `flagged` says which events have an unresolved exception, and moves freely. The
families are specified apart and not composed; to each the other is a choice of the
environment.

### The gate workflow

**State.** `movement`, `event`, `exception`, `attempt`, `fallback`, `reconciliation` are the
tables, as functions from row identifiers to records; a row that does not exist yet has
status `"NONE"` or a null event. `available[m]` says which of the movement's driver and
vehicle pass `isDriverAvailableForMovement` / `isVehicleAvailableForMovement`. `earlier[e]`
is the order of the `completedAt` columns. `request[r]` is a handler in flight: the
statement it is `at`, and what it has read or was given.

**Actions.** A handler is a chain of actions, one per statement whose position among other
requests' statements matters. `Serve` is its first statement: a request that is refused
there, or that returns an existing row, changes nothing and is the same as no request.
`Continue` goes on to the next statement or throws. `transitionGateEvent` is the pair
`CheckTransition` (read and assert) and `WriteTransition` (update by id); a handler that
begins with it starts at `AskTransition`. What an update is followed by in the same handler
(`Enters`, `Leaves`, `Pairs`) is in the action, and `transition()` of the movements is
`AskMovement`/`StartOrCompleteMovement` and `WriteMovement`. Reads that concern columns
nobody changes are folded into the neighbouring statement. `Crash` ends a request between
two statements. With `Serial = TRUE` a request starts only when none is in flight.

**Abstractions.** One tenant. One inspection item stands for all, since no later check reads
an outcome. The face match, the provider's answer and the comparison of readings are reduced
to their outcome, chosen freely. Audit rows, comments, templates, media and permissions are
left out: the caller is taken to hold the permission. Definitions marked `(variant)` are
plausible mistakes in the definition that follows them; they are used only to see that the
properties notice.

### Billing

**State.** `subscription` and `running` (a RUNNING row of the recurring job) are one tenant's
columns; `invoice`, `attempt`, `providerEvent` are tables, `payment[k]` is the invoice paid
under an idempotency key: the webhook's keys are its events, manual payments draw their own
(`Proof`). `checkout`, `notice` and `acknowledged` are the provider's: what became of a
checkout session, what each event announces of it, which events were answered with 200.
`request[r]` is as above; `due` is the list the overdue job is working through. The clock is
each invoice's `age`: before the due date, past it, or past the grace period.

**Actions.** One per statement that others can come between. The webhook is `ReceiveEvent`
(the duplicate check and the reads), `InsertEvent` (the row behind its unique index and the
verdict, which depends on nothing that changes, and asks for amount and currency only where
the event has them), `WriteAttempt`, `BookPayment` (the
transaction), `CloseEvent`, `CountOutstanding`, `RestoreSubscription`, `WriteActive`,
`Answer`. The job is `BeginCycle` (claiming the RUNNING row), `FindInvoice`, `InsertInvoice`,
activation, `FindOverdue`, then `MarkOverdue` and `MarkTenantPastDue` per invoice,
`SweepSuspensions`, `SuspendSubscription`, `CloseRun`. `Crash` leaves every row as it is.

**The provider** is an environment: it settles a checkout once, announces each status of a
checkout at most once, with the right amount and currency, with none, or with another, and
delivers an event whenever it likes, so early, twice, late and in any order. It starts no event
by itself for a reference it never gave out; signatures are taken to be checked.

**Abstractions.** One tenant (tenants share only the sequence of invoice numbers and the job's
lock). An event's amount and currency are exact, absent or other (`Amount`); a manual payment's
are taken to be the invoice's. DRAFT, REFUNDED and CANCELLED are statuses no code sets.

### Evidence

**State.** `asset` holds the rows of files; one slot of `Asset` stands for one idempotency key,
so a row that the clean-up deleted becomes `CLEARED` and does not come back: another upload is
another slot. `objects[a]` is what the bucket holds for it, each object named by who stored it
(the presigned upload, or a request). `bytes` says whether compression changes what was uploaded
and whether the category keeps the original beside it; the client decides that with the upload.
`url` are the files whose upload URL still takes PUTs, and `late` is a history variable: the
files whose upload a PUT put back after the row had moved on and it was gone. `legal` and `hold`
are the two holds of a row, `flagged` the files whose gate event has an unresolved exception.
`deletion`, `certificate`, `case`, `link`, `finding` are tables, `request[r]` is a handler in
flight, `regime` says which handlers are called and whether requests overlap, die, or meet a
failing store.

**Actions.** As at the gate, one per statement that others can come between. An upload is the
object, then the row. A presigned upload is the row, then a PUT whenever the client likes and as
often as it likes until the URL expires, whatever has become of the row: the route asks for the
signature and the expiry only. A confirmation is `PROCESSING`, `ReadObject`, `StoreFinal` (the
compressed bytes as a new object), `DropUpload` (what they replace), `READY`; it may fail at
each of them, and after the store too (`FailAfterStore`), which leaves an object that no row
names. The clean-up lists stale uploads, then deletes object and row one by one. A deletion
request is checked (`Eligible`), inserted, approved by another user (`WriteApproval`,
`MarkPendingDeletion`), refused, or completed after `RecoveryElapses`: the covered files and
their holds are read once, the exceptions file by file, then per file the objects and the row,
then the certificate, then the status. The job calls the same handler for every due request.
Linking a file to a case reads the case's hold and puts the file on hold; releasing it lists the
links and asks of each file whether another case holds it. A finding's submission, return or
rejection writes the finding, then its case.

**Abstractions.** Bytes, hashes and thumbnails are left out. All PUTs to one URL carry the same
file. An upload is old enough to be cleared away (a day) only when its URL has expired (15
minutes). Evidence that is not a file (events, exceptions, findings of the analytics) is linked
the same way but holds nothing. Two tenant settings, dual approval of a hold's release and
separation of duties, are taken to be on. Chronology, comments, corrective actions and the text
of a draft are plain data.

### Operations

Eight components that share no table are specified each with its own `Spec` over
`OperationsData` (`call[r]` is the request in flight; `mode` says whether requests overlap and
whether processes die and jobs fail), and put side by side in `MCOperations`, where `part` names
the one that moves in a behaviour.

* `MobileReceipts`: insert, look up and replay, run, complete or release. A mutation is several
  statements without a transaction: it writes something (`RunMutation`, `begun[k]`), then
  returns (`effect[k]`) or throws for all it has written (`FinishMutation`), as `raiseException`
  does when the visit cannot move on. `answered[k]` is what clients were told. Clients repeat a
  call whenever they like, also under one key with another content.
* `Discrepancies`: the update of a discrepancy, the count, and the derived status written later.
* `Biometrics`: enrolment reads the active version in its transaction and writes later;
  revocation and the deletion by two users race with it. `RecoveryWindowElapses` is time.
* `Notices`: a notice is PENDING, handed to the provider, SENT or FAILED with attempts and a
  back-off; retention notices are sent in groups by a job, investigation notices by the request
  that queues them and then by another job. `running` are the rows that keep a job from
  overlapping. `handed` and `delivered` are the provider's; it may also deliver and then throw,
  which is recorded as a failure (`denied`). `FailJob` is a statement of a job that throws: the
  job is released, and the attempt whose outcome it was to write is not counted (`lost`).
  `BackoffElapses` is time.
* `BillingEmails`: whoever learns of a payment tries its contacts; the partial unique index lets
  one delivery per payment in, whichever contact is first; a failed one is not tried again.
  Resends are rows of their own.
* `Telematics`: a sync reads a position or not, evaluates the policy (what it sees is chosen
  freely), reads the open episodes, clears those that are over and raises or counts the others.
  `streak` is a history variable: how many evaluations in a row have seen a kind.
* `Analytics`: one rule and one subject. Versions of the rule, calculations of a window with the
  cooldown, and the decisions people take, each check and its write apart. Whether a window
  reaches the thresholds, and its last day, are chosen freely. `DayPasses` is time.
* `Trackers`: a mapping is created behind two partial unique indexes, with the columns of the
  vehicle in the same transaction; it ends by id.

## 4. Runs

All with TLC on two workers; every run ends within about four minutes.

| Run | Instance | Checks |
|---|---|---|
| `gate_serial` | from creation, one request at a time, 2 events, 1 exception, 1 fallback, 2 users; with deaths and without inspection, or the other way round | `TypeOK`, `UnderWayMeansEntered`, `LockedVehicleNotCleared`, `FailureIsRaised`, `JourneysArePaired`, `IdentityOrException`, and `ImplementsLifecycle`: the detailed specification refines `VisitLifecycle` |
| `gate_races` | 2 interleaved requests on an approved movement with 2 events; on a submitted movement or an event in its checks, with deaths; on an event pending identity with 3 attempts, limit 1 and a fallback | `PairIsOutAndBack`, `DecisionMatchesStatus`, `AttemptsStayNearTheLimit`, `DecisionsTakeTwoUsers` |
| `two_starts` | 2 racing starts | expected violation of `OneOpenEventPerMovement` |
| `block_not_denied` | serial, 1 exception | expected violation of `BlockingOutcomeDenies` |
| `entry_then_exit` | serial, 2 events | expected violation of `SecondLegMayStart` |
| `billing_races` | 2 interleaved requests with deaths, 1 period, invoice, checkout and manual key, 2 events; the recurring cycle, checkout, webhook and manual payment | `TypeOK`, `PaidIsBooked`, `BookedFromNotice`, `AcceptedIsBooked`, `OnlyActiveFallsPastDue` |
| `billing_serial` | every handler, serial, no death, 2 periods and invoices, 1 checkout, event and manual key, fair | `SettledIsRestored`, `SuspensionIsDue`, the liveness property `AnnouncedIsBooked`, and `ImplementsAccount`: the detailed specification refines `AccountLifecycle` |
| `suspension_lifted` | serial, 2 periods, 2 invoices | expected violation of `SuspensionLastsWhileOwing` |
| `lost_payment` | serial with deaths, 1 checkout and event | expected violation of `AcknowledgedIsBooked` |
| `evidence` | eight regimes, see below | `TypeOK`, `ErasedByTwoUsers`, `FindingNeedsTwoUsers`, `BucketMatchesRows`, `CertificateIsExact`, `CaseHoldProtects`, `AwaitingHasFinding`, `ErasedOnlyFree`, and `ImplementsCustody`: the handlers refine `Custody` |
| `uncertified` | serial with deaths and a failing store, 1 file and request | expected violation of `CertificateListsDeleted` |
| `operations` | eight components, see below | `OperationsTypeOK`, `TemplatesAreAccountable`, `StatusFollowsDiscrepancies`, `NoticesGoOutOnce`, `OneEmailPerPayment`, `EpisodesAreStreaks`, `IndicatorsAreAccountable`, `TrackersAreShown`, the refinement `ImplementsOnceOnly` of `OnceOnly`, and the liveness properties `ReceiptSettles` and `NoticeSettles` |

**Bounds and why they are enough.** At the gate, two events of one movement are what duplicate
starts and the pairing need; movements do not share rows except through their own events. Two
requests are what every race found needs: one that checked and one that writes in between. Two
users are what the separation of duties distinguishes. The rate limit is 1 and there are three
keys, so that the limit is reached, overshot by a second request and reached again. The sets
`Event`, `Exception`, `Attempt`, `Fallback` bound the rows ever inserted: an insert that finds
none left ends the request; `FailureIsRaised` allows for that in its statement. The racing
scenarios start in states that one request after another reaches (a submitted or approved
movement, an event pending identity or in its checks), to keep them small. In both gate runs,
where a handler does not compare its user with another one, one user calls it. Rows and requests
are interchangeable, the users apart from that one too: symmetry is used for safety properties
only, and nothing here depends on their order. Deadlock is not checked in any run: once all rows
are used and closed there is nothing left to call.

In billing, one invoice, two events of its checkout and two requests are what the races of
payments need: a webhook against its own redelivery, against the other event in either order
(PENDING after SUCCESSFUL), against a manual payment or the overdue job. The second event is
announced only while no job runs (`OneEventBesideTheJob`). Generating by hand, voiding,
reissuing and the administrator's steps are left to the serial run, which has them all, and to
the theorems, which let everything overlap. Two invoices let a paid one meet an unpaid one, a
reissue its original, and the next month's invoice the last month's debt. `Invoice` and `Proof`
bound the rows: inserts beyond them fail.

In the evidence, a regime names the handlers that are called, since all of them at once are
too many, and starts from the rows they work on:

| Regime | Requests | Handlers |
|---|---|---|
| `Disposal` | 2 overlapping, deaths, failing store | two deletion requests of one kept file: request, approve, reject, cancel, complete |
| `Confirmations` | 2 overlapping | upload, initiate and confirm one file |
| `Reviews` | 2 overlapping, deaths | submit, approve, return two findings of one case; close it |
| `Uploads` | serial | initiate, confirm, clean up, replace two files |
| `Files` | serial | from the upload of two files to the certificate, with legal holds |
| `FilesWithFaults` | serial, deaths, failing store | one file, with clean-up, archive, holds by hand and exceptions |
| `Holds` | serial | evidence of two cases under their holds, and its deletion |
| `Investigation` | serial | the life of one case with two findings |

In the operations, each component has 2 requests that overlap and die, except episodes, which
are evaluated one sync at a time (with and without deaths). Receipts and notices also run
without deaths, for the liveness properties, discrepancies and indicators also one at a time
without deaths, trackers also one at a time. Two users, 1 key with 2 contents, 2 versions and 2
removals, 2 discrepancies, 1 notice of each kind with 1 attempt whose outcome its row does not
tell (`MaxAstray`: enough to see a fourth attempt and a second delivery), 1 payment with 2
contacts, 2 kinds of violation of which one is severe, streaks up to 4 (past the escalation at
3), 2 days, periods of 1 and 2 days, a cooldown of 0 or 1, 2 versions of the rule, 2 decisions,
2 cases, 2 vehicles and trackers with 3 mappings. Where indicators race, one evaluation window
is used.

**Fairness.** The gate's and the evidence's properties are all safety properties: nothing there
retries a request. Billing's `FairSpec` assumes weak fairness of each request in flight
(a live process goes on with its next statement; the run has no deaths) and strong fairness
of each delivery not yet acknowledged: payment providers deliver a webhook until it is
answered, and a server is free to take it up infinitely often but not always. Nothing else is
fair: no customer has to pay, no clock has to pass a due date, no job has to run.
`MCOperations` assumes weak fairness of each request being served (receipts, notices), weak
fairness of a back-off's end, and strong fairness of each job being started: the scheduler
calls it again and again, though a worker may be busy each time one looks. Both liveness
properties are about behaviours without deaths; a dead runner leaves its RUNNING row, and a
dead mutation its receipt.

**What the violations say.** `two_starts`: the promise that duplicate submissions create no
duplicate gate event holds for submissions one after the other, which is what the test does,
not for overlapping ones. `block_not_denied`: a minor exception resolved with a blocking
outcome before it is escalated is recorded as resolved, while the event stays
`EXCEPTION_RAISED` because the table has no step from there to `DENIED`; nothing can resolve
it again. `entry_then_exit`: a visiting vehicle that entered can never have its exit started,
since clearing the entry takes the movement out of `APPROVED`. `suspension_lifted`: every new
invoice activates the subscription, so a suspension lasts only until the next month's invoice,
and the overdue invoice behind it is not looked at again. `lost_payment`: an event's row means
"seen", not "processed", so a death between the row and the payment makes the provider's
retries, which exist for that very case, duplicates. `uncertified`: a process that dies after
marking files deleted and before issuing the certificate leaves a request that is still due;
the completion that follows skips files that are gone already, and certifies the rest only.

**Where a passing run contradicts a document.** Four properties say what the code does where a
document or a test says more. `AnnouncedIsBooked` and `BookedFromNotice` count a success without
an amount or a currency among those that are booked: only another amount is rejected, while
BILLING_AND_SUBSCRIPTIONS.md wants both to match exactly. `NoticesGoOutOnce` bounds the attempts
of a notice by three and those that a failing run left unrecorded, and its deliveries by one,
those, and the ones the provider threw about; D-055 says three. `ImplementsOnceOnly` promises
one completed run per key; a run that threw after its first write has left that write, and its
key is free again, where D-079 calls the gate's calls idempotent. `OneEmailPerPayment`, with two
contacts, says that one of them is mailed, while the test that says "one per active contact" has
one contact only. Each is a finding in `PROJECT.json` with its lines.

**What holds only under conditions.** `ImplementsLifecycle`, `UnderWayMeansEntered`,
`LockedVehicleNotCleared`, `IdentityOrException` and `JourneysArePaired` hold for requests
served one at a time. Under races TLC refutes them: a lockout lands between the re-check and
the clearance, a clear between `completeGateEvent`'s read of the decision and its transition
leaves the journey unpaired. The four invariants of `gate_races` are those that survive every
interleaving and every death. `JourneysArePaired` also needs requests that do not die, and
`FailureIsRaised` needs nothing else: its run is a serial one, its theorem is not.

In billing the same holds of `SettledIsRestored`, `SuspensionIsDue`, `AnnouncedIsBooked` and
`ImplementsAccount`. With requests that overlap or die, an event delivered before its attempt
is inserted is answered as an ERROR and lost; a payment inside the sweep is not seen and the
tenant is suspended; the overdue job or a void overwrites PAID; a death between a payment and
the restore leaves a tenant who owes nothing SUSPENDED, and voiding the last overdue invoice
never restores at all (`SettledIsRestored` therefore speaks of paid invoices). A dead run of
the job leaves its RUNNING row, and no later run starts. `OnlyActiveFallsPastDue` leaves out
the administrator's suspension: its write is not protected by the job's row. A second checkout
for one invoice, or a late success for a void one, books another payment: the webhook never
asks whether the invoice is still payable. `AccountLifecycle` allows for that (VOID to PAID).

In the evidence, the properties name their conditions themselves. A confirmation that races with
another one, or with the clean-up, can fail an upload that was READY, so `Custody` leaves those
races out (`InCustody`). That a READY file has its object survives racing confirmations, not a
clean-up that lists an upload before it is confirmed and deletes its object after. A hold that
is placed while a completion is under way comes too late for the files it has read, so
`ErasedOnlyFree` is about one request at a time; what no race and no death takes away is that
two users stand behind every erasure. A PUT that comes after the confirmation, while the URL is
valid, puts back an upload that no row names and no deletion finds: `BucketMatchesRows` leaves
it out of what a deletion must have erased (`late`). A store that fails, or a confirmation that
fails after the store, leaves objects behind, and a death inside a link or a release leaves
files without, or with, a hold: `CaseHoldProtects`, `CertificateIsExact` and
`AwaitingHasFinding` exclude both. A file whose link was marked as entered in error stays on
hold. A completed request whose certificate is there already makes the job's loop throw and
keeps it from the requests after it.

In the operations, two syncs of one vehicle create two episodes of one kind; two overlapping
resolutions may leave a reconciliation OPEN that has nothing open (RESOLVED is always true, and
one at a time it is reached); two crossing escalations of an indicator open two cases and link
one; a reopened indicator keeps its case and cannot be escalated again; an end that comes late
clears the columns of a newer mapping with the same tracker. A mutation whose process died
after it took effect leaves its key IN_PROGRESS for ever: the same call is never repeated and
never answered. One that threw half-way is repeated from its start, beside what it has written.

## 5. Proofs

### The gate workflow

`GateProofs` proves with TLAPS, for any sets of rows and users, every choice of `Operations`
and of `AllowSelfApprove`, and any set of requests, under the conditions named:

| Theorem | Property | Condition |
|---|---|---|
| `TypeCorrect` | `TypeOK` | |
| `SeriousExceptionsNeedAnotherUser` | `SeriousNeedsAnotherUser` | |
| `ApproversAreNotRequesters` | `ApproverIsNotRequester` | |
| `DecisionsMatchStatuses` | `DecisionMatchesStatus` | |
| `FallbacksNeedAnotherUser` | `FallbackNeedsAnotherUser` | |
| `DecisionsNeedTwoUsers` | `DecisionsTakeTwoUsers`, the conjunction of the three about users | |
| `PairsAreOutAndBack` | `PairIsOutAndBack` | |
| `AttemptsAreLimited` | `AttemptsStayNearTheLimit` | finitely many requests, at least one |
| `FailuresAreRaised` | `FailureIsRaised` | `~MayCrash` |
| `LifecycleIsKept` | `ImplementsLifecycle`, a refinement | `Serial` |
| `UnderWayAfterEntry` | `UnderWayMeansEntered` | `Serial` |
| `IdentitiesAreSettled` | `IdentityOrException` | `Serial` |
| `LockedVehiclesStay` | `LockedVehicleNotCleared`, of steps | `Serial` |
| `OpenEventsAreSingle` | `OneOpenEventPerMovement`, which `two_starts` shows broken without `Serial` | `Serial` |
| `JourneysArePairedInTime` | `JourneyIsPaired`, which `JourneysArePaired` states for one scenario | `Serial`, `~MayCrash` |
| `NoMovementCompletes` | no movement is ever COMPLETED | `Serial` |
| `CompletedVisitsKeepExceptions` | an exception of a COMPLETED event never changes, of steps | `Serial` |
| `DecisionsAreFinal` | a decision once made never changes, of steps | `Serial` |
| `PairsAreFinal` | a reconciliation once inserted never changes its pair, of steps | |

The first seven follow from `AlwaysInductive`, `Spec => []Inductive`. None of the properties is
inductive alone, because a write relies on a check made several statements earlier. `Inductive`
adds to them

* `WellFormed(request[r])`: what a request carries at each of its statements;
* `Sound(request[r])`: what it has checked and what still holds when it writes, for example
  that the decider of a movement being approved is not its requester, or that a gate event
  about to be completed has a decision;
* `RowsSound`: empty rows are empty, an approved fallback names its approver, a
  reconciliation names two events.

The argument has two halves, both in `GateLemmas`. `Keeps` says that no statement of anybody
takes back what a request may have checked (a requester, the raiser and seriousness of an
exception, a decision once made, the direction and owner of a decided event, the answer to a
fallback): the first half shows that under `Keeps` the `Sound` of the *other* requests survives
a step, and treats the statements that only read. The second half treats the statements that
write: each keeps the rows' invariants because of its own request's `Sound`, and satisfies
`Keeps`. `GateProofs` puts the actions of `Next` together, one step each, and adds `Init`.

The others add to `Inductive` an invariant of their own, stated in `GateLemmas` or beside its
theorem:

* `AttemptsCounted`: the attempts of the window and the requests about to insert one are
  together below the limit plus the number of requests. A request joins them only when it
  counted fewer attempts than the limit, and at most all the others are about to insert then.
  Served one at a time, the limit itself is the bound.
* `RaisedInTime`: a failed item has its exception, or the request that wrote it is between that
  write and the insert. No other request can undo either, so no `Serial` is needed.
* `OneAtATime` is what `Serial` gives: one request is in flight at most (`Alone`), and what it
  has read is still so when it writes (`Timely`). With it the rows themselves are orderly
  (`VisitsSound`: one open event per movement, no movement under way without a cleared entry, no
  event past its identity check without a verified driver or an exception). A death leaves
  `VisitsSound` as it is: every single write keeps it, so the refinement holds with deaths. Each
  statement that writes is mapped to one step of `VisitLifecycle`, each that reads to a stutter.
* `FirstLegs` and `PairedInTime`: `earlier` orders the cleared legs of a movement, so one that
  comes first in each direction always exists; and a movement with both legs has its
  reconciliation, or the request that completed the second leg is on its way to the insert. A
  death in between is what breaks that, hence `~MayCrash`.
* `Settled`, on top of `OneAtATime`: no movement is COMPLETED, the open visit of one under way
  is its entry, a decision is followed by nothing but its own statuses, a request that completes
  a way out finds its movement not under way, and a resolution that is about to be written finds
  its exception still waiting. From it follow three theorems about ends. `NoMovementCompletes`
  is the general form of what `entry_then_exit` shows on one instance:
  `tests/movement-state-machine.test.ts:22` walks a movement from DRAFT to COMPLETED, yet the
  only caller of that last transition completes the EXIT of a movement under way, and an EXIT is
  never started for one. `CompletedVisitsKeepExceptions` says the same of the exception that
  `buildReconciliation` raises for a HIGH discrepancy: the event it is put on is COMPLETED, and
  no request can resolve it. Both could be taken for intended restrictions; the theorems make
  them visible. Two overlapping starts do complete a movement: TLC finds it in the races.

`ScenarioProofs` carries the gate's results over to the instances that TLC explores, whose
initial states are not those of `Spec` or whose handlers are a choice of scenarios:

| Theorem | Property | Condition |
|---|---|---|
| `ScenarioJourneysArePaired` | `JourneysArePaired` under `SerialSpec` | `Serial` |
| `RacesAreSafe` | `DecisionMatchesStatus`, `DecisionsTakeTwoUsers`, `PairIsOutAndBack` under `RaceSpec` | |
| `RacingAttemptsAreLimited` | `AttemptsStayNearTheLimit` under `RaceSpec` | finitely many requests, at least one |

Its first lemma is that a step of a scenario is a step of `Next`; the second, that the states
in which the races begin satisfy `Inductive`, so that they are at least consistent with
everything that is proved of the reachable ones.

Assumptions: `None` is not an identifier, the rate limit is a natural number, the switches
are Boolean. They are evaluated by every run. The conditions are those under which the runs
check the same properties, or weaker.

### Billing

For any sets of periods, invoices, checkouts, events, manual keys and requests, interleaving
and dying anywhere:

| Theorem | Module | Property | Condition |
|---|---|---|---|
| `TypeCorrect` | `BillingProofs` | `TypeOK` | |
| `PaidInvoicesAreBooked` | `BillingProofs` | `PaidIsBooked` | |
| `BookingsAreAnnounced` | `BillingProofs` | `BookedFromNotice` | |
| `AcceptedEventsAreBooked` | `BillingProofs` | `AcceptedIsBooked` | |
| `RunsAreAlone` | `DunningProofs` | `OneRun` | |
| `FallsPastDueFromActive` | `DunningProofs` | `OnlyActiveFallsPastDue`, of steps | |
| `AccountIsKept` | `DunningProofs` | `ImplementsAccount`, a refinement | `Serial` |
| `SuspensionsAreDue` | `DunningProofs` | `SuspensionIsDue`, of steps | `Serial` |
| `PaymentsRestore` | `DunningProofs` | `SettledIsRestored` | `Serial`, `~MayCrash` |
| `AnswersAreBooked` | `DunningProofs` | `AcknowledgedIsBooked`, which `lost_payment` shows broken by a death | `Serial`, `~MayCrash` |
| `SuspensionsAreLifted` | `DunningProofs` | who lifts a suspension, of steps | `Serial` |

`BillingProofs` follows the same pattern. `Inductive` adds to the properties `RowsSound` (an
attempt is for the invoice of its checkout, an event speaks of a checkout and, once settled,
tells what became of it, an event's row is of an announced event) and `Sound(request[r])`: a
webhook's event is announced and its attempt is the one the event is about, its result is the
event's verdict, it books only a success that names no other amount, and when it closes an
accepted success the payment is there. `Keeps` says what no step takes away: an announcement,
the invoice and the outcome of a checkout, the invoice of an attempt, a payment. Most statements
touch none of it (`AccountChanges`); the transactions do (`BookPaymentKeeps`,
`BookManualKeeps`), and the provider's own steps (`SettleCheckoutKeeps`, `AnnounceKeeps`). That
a webhook's payment replaces none under another invoice follows from `BookedFromNotice` itself:
one event, one checkout, one invoice.

`DunningProofs` proves `OneRun`: the RUNNING row excludes a second run whether or not the first
died, every statement of the job belongs to it, and so what the job has read of the
subscription before it writes PAST_DUE still holds, unless an administrator suspends. The
action property is a consequence for the one statement that writes PAST_DUE.

For requests served one at a time `DunningProofs` adds `OneAtATime`: one request is in flight at
most, an invoice with a checkout was issued, and `Timely` says what a request has read that is
still so when it writes (whoever suspends found an OVERDUE invoice past its grace period, a void
or a manual payment found its invoice payable, the overdue job's list is still ISSUED). Only
the clock and the provider move under such a request, and neither takes any of it back: an
invoice only grows older. Every write is then a step of `AccountLifecycle` or a stutter, also
where a request dies before its next one. `RestoredInTime` is the invariant behind
`PaymentsRestore`: when all is paid and the tenant is not restored, the request that took the
payment is between the payment and the write of ACTIVE, and that nobody dies there is the
condition.

The last two theorems are the other side of two findings. `AnswersAreBooked`: an event that was
answered with 200 and should be booked is booked, one at a time and without deaths, so the
death of `lost_payment` is all that can lose a payment in this way. Its invariant `Accounted`
follows an event through the webhook: a checkout without its attempt is the one the request in
flight is about to record, the row of an event that names no other amount is not ACCEPTED only
while its request is processing it, and what was answered, be it as a DUPLICATE, is ACCEPTED or
names another amount. `SuspensionsAreLifted`: a suspended subscription becomes ACTIVE only where a
new invoice is issued (`generate`, or the recurring `cycle`), where the administrator restores
it, or when no invoice is ISSUED or OVERDUE, also when requests die. So the new
invoice of `suspension_lifted` is the only way a tenant who owes gets back without the
administrator. Its invariant `MayLift` says that a lone request that counted nothing outstanding
is still right when it writes ACTIVE.

Assumptions: `None` is not an identifier, the webhook's idempotency keys and those of manual
payments differ (their prefixes do), the switches are Boolean.

### Evidence

For any sets of files, deletion requests, cases, links, findings, users and requests, and any
set of regimes. Where a property needs requests served one at a time, or no deaths and a store
that works, it says so itself (`regime.serial`, `~regime.faults`) and claims nothing of the other
regimes. The first three meet races, deaths and failures everywhere; the refinement too, but
for races of confirmations and clean-ups (`InCustody`).

| Theorem | Property | Condition |
|---|---|---|
| `TypeCorrect` | `TypeOK` | |
| `ErasureTakesTwoUsers` | `ErasedByTwoUsers` | |
| `ApprovalTakesTwoUsers` | `FindingNeedsTwoUsers` | |
| `CustodyIsKept` | `ImplementsCustody`, a refinement | |
| `EvidenceIsHeld` | `CaseHoldProtects` | |
| `OnlyFreeFilesAreErased` | `ErasedOnlyFree`, of steps | |
| `ApprovalsHaveFindings` | `AwaitingHasFinding` | |
| `CertificatesAreExact` | `CertificateIsExact` | `CompletedAlone` |
| `BucketIsInStep` | `BucketMatchesRows` | `ClearedAlone` |

The first three speak of rows; that they are kept depends on requests that read those rows
long before they write. `EvidenceInvariant` adds `RowsSound` (a deletion request that exists
names its initiator, one that was approved another user; a cleared slot is not an erased file;
a link names a file) and `Sound(request[r])` (`DeletionSound`: who is about to approve is not
the initiator, and who is erasing works on an approved request that covers the file;
`FindingSound`: who is about to approve is not the author; `LinkSound`). What was checked stays
true because of `Keeps`: no step changes the initiator, the links or an approver of a deletion
request, the author of a finding, or makes a routine file of another one. A slot that the
clean-up emptied may be erased from a list read earlier; its update finds no row, which is why
the lemmas say *covered or cleared*.

The other six rest on a layer above `Inductive`. For each statement of each handler one lemma
says what it changes and where its request goes on (`MarkReadyDoes`, `EraseObjectsDoes`, ...);
the proof that an invariant below is preserved cites these instead of the actions:

* `Alone` (one request in flight where the regime is serial) and `Named` (requests, links and
  lists speak of rows that exist, and a statement belongs to a handler the regime calls).
* `ReadyInTime`, for the refinement: what a deletion request covers is READY, and who deletes
  uploads or marks them otherwise found one that is not. A slot of a cleared row, a file marked
  as gone before its objects are, and a request that is approved after it was refused are all
  steps of `Custody`, since the mandate keeps its initiator and its last approver.
* `HoldsInTime`: evidence of a held case is on hold, or the request that linked it is about to
  put it there; a release that is about to clear a hold found no other case that holds the file.
* `FreeInTime`: the holds of what a completion is about to erase are as it read them.
* `ReviewsInTime`: a case that awaits approval has a submitted finding, or the request that sent
  it back is about to move the case.
* `CertifiedInTime`: a file that is gone and that one request alone covers is in the certificate
  of that request, or noted by the completion that will write it.
* `StoredInTime` and `ErasedInTime`: the object that a READY row names is there, and so is what a
  request has stored and is about to name; nothing is in the bucket but what a row names, a
  request is about to put into one, or a late PUT put back (`UrlsOnce`: a URL is of
  a file that has, or had, a row).

Two theorems restrict the regimes. `CompletedAlone`: where requests are completed and no process
dies, they are served one at a time, since two completions of one request each note a part of
the files they find, and each writes a certificate or fails to. `ClearedAlone`: the same of the
clean-up, which can delete the object of an upload that was confirmed after it was listed. Both
hold of the regimes the run checks. Each of these invariants was checked by TLC on the run's
regimes, and on smaller ones from `Init`, before it was proved.

Assumptions: `None` is not an identifier, "upload" is not the name of a request, the switches
of a regime are Boolean.

### Operations

`OperationsProofs` has one theorem for each of the eight components, about its own `Spec`, for
every number of users, requests and rows, overlapping and dying:

| Theorem | Property | Argument |
|---|---|---|
| `ReceiptsAreOnceOnly` | `ImplementsOnceOnly`, a refinement | a key without a receipt has no completed run, whatever runs that threw have begun; an IN_PROGRESS receipt has one worker at most, and writes and completes through that worker alone; a COMPLETED one tells the only completed run; what was answered is that run |
| `TemplatesStayAccountable` | `TemplatesAreAccountable` | the index leaves no ACTIVE version beside the one an enrolment revoked in its own transaction; a removal keeps its version, its initiator and an approver other than the initiator; whatever takes the last ACTIVE version away takes the mark of enrolment with it |
| `ResolvedIsTrue` | `StatusFollowsDiscrepancies` | nothing opens a discrepancy again, so a count of none stays true until it is written; one request at a time, whoever closed the last one is on the way to write it |
| `NoticesStayCounted` | `NoticesGoOutOnce` | a notice has one owner: the job that listed it, or the request that queued it. What may be listed was handed over as often as it was counted and lost, and delivered at most as often as lost or denied; a notice whose count is behind is kept from the lists by the RUNNING row of its job, dead or alive, or by its status |
| `EmailsGoOutOnce` | `OneEmailPerPayment` | whoever hands an e-mail over inserted the delivery of its payment, for this recipient, and nothing was mailed for it before |
| `EpisodesTellStreaks` | `EpisodesAreStreaks` | one sync at a time, the exception of a kind that was seen and not written yet is one observation behind its streak, as it was read; of every other kind it says the streak |
| `IndicatorsStayAccountable` | `IndicatorsAreAccountable` | an indicator never changes its version, and who updates one found it under the version it calculates with; a lone decider's status is current; a case that was opened is linked, or its opener is on the way to link it |
| `VehiclesShowTheirTracker` | `TrackersAreShown` | two live mappings share neither vehicle nor tracker, the columns of a vehicle come and go with its mapping, and a mapping about to be ended was live when it was read |

Each is proved from an inductive invariant of the same form: the rows' shape, and what every
request in flight carries and has checked (`EmailInductive`, `NoticeInductive`, ...). Where a
property is conditional on requests served one at a time or on no deaths, so is the invariant:
`TelematicsInductive` says nothing of overlapping syncs. The bounds on rows and counters
(`MaxVersion`, `MaxAstray`, `MaxRule`, `MaxEvents`, `MaxDay`, `MaxEpisodes`, `MaxStreak`) are
constants of the theorems, so they hold for any value.

`SideBySideProofs` proves of `MCSpec`, in which the eight are put side by side:

| Theorem | Property |
|---|---|
| `OperationsKeepTheirShape` | `OperationsTypeOK`, with the bounds on attempts and observations |
| `OperationsKeepTheirWord` | the seven invariants of the run at once |
| `ReceiptsAreOnceOnlySideBySide` | `ImplementsOnceOnly` |

The component that moves keeps its own inductive invariant, by the lemmas of `OperationsProofs`
(one that its initial states satisfy it, one that its steps preserve it, one that it implies the
promise); the others keep their initial rows, which satisfy every promise. One bound of
`OperationsTypeOK` is not in the invariants and is proved here: that of the observations of an
exception (`TelematicsFits`). It needs that a sync begins only where every open exception can be
seen once more, and that nobody else raises one before it has (`RoomLeft`).

Assumptions: `None` is none of the identifiers it stands beside, a reconciliation has a
discrepancy, the bounds are natural numbers, periods are positive; each is named in the module
that declares the constants and evaluated by the run `operations`.

### Only model-checked

* Liveness under fairness (`AnnouncedIsBooked`, `ReceiptSettles`, `NoticeSettles`) is out of the
  prover's reach.
* The expected violations are TLC's counterexamples. Where a property fails under some
  conditions only, a theorem says under which it holds: `OpenEventsAreSingle` for `two_starts`,
  `AnswersAreBooked` for `lost_payment`, `CertificatesAreExact` for what a certificate says where
  `uncertified` does not apply. `NoMovementCompletes` and `SuspensionsAreLifted` say how far what
  `entry_then_exit` and `suspension_lifted` show extends.

Every invariant and every action property that a passing run checks is stated by a theorem.

## 6. Not modelled

* `expireMovement` has no caller. The fleet's own repositories appear only as what the gate
  reads of them: an availability that changes at any time. Driver and vehicle assignments are
  one Serializable transaction behind unique indexes.
* What is plain computation on rows already read: the comparison engine behind
  `buildReconciliation` (its severities are chosen freely), the conditions of the analytics
  rules, the geometry of a telematics policy, pricing, proration and the list of billable
  vehicles, ratings, read-outs of dashboards, exports and PDFs. Their results are what the
  handlers are given here, in every combination.
* Support and auditor access, sessions and permissions: a row that moves only towards its end,
  by the one user it belongs to or who grants it; nothing reopens it and every use reads it
  afresh. The expiry job may overwrite the time of an end that came in between, never undo it.
  Every caller in the modules is taken to hold the permission it needs.
* Retention categories, policies and the reports about them, the text, chronology and
  corrective actions of a case: plain data with one writer at a time.
* The mobile client and the web pages call the routes and show what they return; the
  provisioning, demo and pilot scripts run by hand, one at a time.
* Tenants share no row but the sequence of invoice numbers and the jobs' RUNNING rows; one
  tenant is modelled everywhere.

What would come next: the comparison engine as a function from two legs to discrepancies, with
what it may report proved of it.
