-------------------------------- MODULE Notices --------------------------------
(***************************************************************************)
(* run-job.ts and the two notification repositories: a notice is handed to *)
(* a provider by a job that at most one process runs, again after a        *)
(* failure, as long as fewer than three attempts are recorded.  Retention  *)
(* notices are generated PENDING and sent in groups; those of              *)
(* investigations are sent by the request that queues them, and by the job *)
(* only once that has FAILED.                                              *)
(***************************************************************************)
EXTENDS OperationsData

CONSTANTS
  Notice,     \* notification records
  Queued,     \* those of investigations
  MaxAstray   \* (bound) attempts of a notice whose outcome its row does not tell

ASSUME QueuedAssumption == Queued \subseteq Notice
ASSUME AstrayAssumption == MaxAstray \in Nat

MaxAttempts == 3

VARIABLES
  running,     \* names of the jobs that have a RUNNING row
  notice,      \* notification records
  handed,      \* of each notice, how often the provider was given it
  delivered,   \* of each notice, how often the provider delivered it
  denied,      \* ... how often it threw although it had delivered
  lost         \* ... how often a run failed before recording an attempt

tallies == <<handed, delivered, denied, lost>>
noticeVars == <<running, notice, tallies>>

NoNotice == [status |-> "NONE", attempts |-> 0, waiting |-> FALSE]

NoticeInit ==
  /\ running = {}
  /\ notice = [n \in Notice |-> NoNotice]
  /\ handed = [n \in Notice |-> 0]
  /\ delivered = [n \in Notice |-> 0]
  /\ denied = [n \in Notice |-> 0]
  /\ lost = [n \in Notice |-> 0]

Job == {"deliver", "retry"}
NoticesOf(job) == IF job = "retry" THEN Queued ELSE Notice \ Queued

\* generateDueRetentionNotifications: the unique key of asset, milestone and date.
GenerateNotice ==
  \E n \in Notice \ Queued :
    /\ notice[n] = NoNotice
    /\ notice' = [notice EXCEPT ![n].status = "PENDING"]
    /\ UNCHANGED <<call, running, tallies>>

\* queueInvestigationNotification: the insert, then the first attempt.
QueueNotice(r) ==
  \E n \in Queued :
    /\ notice[n] = NoNotice
    /\ notice' = [notice EXCEPT ![n].status = "PENDING"]
    /\ Begin(r, [at |-> "send", job |-> "none", todo |-> {}, batch |-> {n}])
    /\ UNCHANGED <<running, tallies>>

-------------------------------------------------------------------------------
\* (variant) overlapping runs of one job
RunsAnyway(job) == TRUE

Free(job) == job \notin running

\* runJob: the unique RUNNING row refuses an overlapping run.
StartJob(r) ==
  \E job \in Job :
    /\ Free(job)
    /\ Begin(r, [at |-> "list", job |-> job, todo |-> {}, batch |-> {}])
    /\ running' = running \cup {job}
    /\ UNCHANGED <<notice, tallies>>

\* (variant) what has been tried three times is listed once more
DueOnceMore(n) == notice[n].attempts <= MaxAttempts /\ ~notice[n].waiting

Due(n) == notice[n].attempts < MaxAttempts /\ ~notice[n].waiting

Listed(job) ==
  {n \in NoticesOf(job) :
     /\ notice[n].status \in {"FAILED"} \cup (IF job = "deliver" THEN {"PENDING"} ELSE {})
     /\ Due(n)}

ListNotices(r) ==
  /\ At(r, "list")
  /\ call' = [call EXCEPT ![r] = [@ EXCEPT !.at = "nextBatch", !.todo = Listed(call[r].job)]]
  /\ UNCHANGED noticeVars

\* Those of retention by groups, the others one by one.
NextBatch(r) ==
  LET q == call[r] IN
  /\ At(r, "nextBatch") /\ q.todo # {}
  /\ \E batch \in SUBSET q.todo \ {{}} :
       /\ q.job = "retry" => Cardinality(batch) = 1
       /\ call' = [call EXCEPT ![r] =
            [q EXCEPT !.at = "send", !.batch = batch, !.todo = q.todo \ batch]]
  /\ UNCHANGED noticeVars

\* A retry that finds the recipient or the case deleted gives the notice up.
GiveUp(r) ==
  /\ At(r, "nextBatch") /\ call[r].job = "retry"
  /\ \E n \in call[r].todo :
       /\ notice' = [notice EXCEPT ![n] =
            IF @.status = "FAILED"
            THEN [@ EXCEPT !.attempts = MaxAttempts, !.waiting = FALSE] ELSE @]
       /\ call' = [call EXCEPT ![r].todo = @ \ {n}]
  /\ UNCHANGED <<running, tallies>>

Count(tally, batch) == [n \in Notice |-> IF n \in batch THEN tally[n] + 1 ELSE tally[n]]

MayGoAstray(batch) == \A n \in batch : denied[n] + lost[n] < MaxAstray

\* The provider delivers or not; and what it delivers before it throws counts as not
\* delivered.
Send(r) ==
  LET batch == call[r].batch IN
  /\ At(r, "send")
  /\ handed' = Count(handed, batch)
  /\ \/ Go(r, "writeSent") /\ delivered' = Count(delivered, batch) /\ UNCHANGED denied
     \/ Go(r, "writeFailed") /\ UNCHANGED <<delivered, denied>>
     \/ /\ Go(r, "writeFailed") /\ MayGoAstray(batch)
        /\ delivered' = Count(delivered, batch) /\ denied' = Count(denied, batch)
  /\ UNCHANGED <<running, notice, lost>>

\* nextRetryAt, of the member of the batch that was tried most: at once after the first
\* attempt, later after the second, never after the third.
Attempted(n, batch, status) ==
  [status |-> status, attempts |-> notice[n].attempts + 1,
   waiting |-> status = "FAILED" /\ \E m \in batch : notice[m].attempts = 1
                                 /\ \A k \in batch : notice[k].attempts <= 1]

WriteOutcome(r, at, status) ==
  LET q == call[r] IN
  /\ At(r, at)
  /\ notice' = [n \in Notice |-> IF n \in q.batch THEN Attempted(n, q.batch, status) ELSE notice[n]]
  /\ IF q.job = "none" THEN End(r) ELSE Go(r, "nextBatch")
  /\ UNCHANGED <<running, tallies>>

WriteSent(r) == WriteOutcome(r, "writeSent", "SENT")
WriteFailed(r) == WriteOutcome(r, "writeFailed", "FAILED")

\* (variant) a finished job keeps its RUNNING row
KeepRunning(job) == running

Released(job) == running \ {job}

\* SUCCEEDED: the row is RUNNING no more.
FinishJob(r) ==
  /\ At(r, "nextBatch") /\ call[r].todo = {}
  /\ running' = Released(call[r].job)
  /\ End(r)
  /\ UNCHANGED <<notice, tallies>>

\* FAILED: a statement of the job throws, and what it has not recorded stays as it was
\* for the next run, also an attempt that was made.
FailJob(r) ==
  LET q == call[r]
      unrecorded == IF q.at \in {"writeSent", "writeFailed"} THEN q.batch ELSE {}
  IN
  /\ mode.faults
  /\ q # Idle /\ q.job \in Job /\ q.at # "send"
  /\ MayGoAstray(unrecorded)
  /\ running' = Released(q.job)
  /\ lost' = Count(lost, unrecorded)
  /\ End(r)
  /\ UNCHANGED <<notice, handed, delivered, denied>>

\* nextAttemptAt passes.
BackoffElapses(n) ==
  /\ notice[n].waiting
  /\ notice' = [notice EXCEPT ![n].waiting = FALSE]
  /\ UNCHANGED <<call, running, tallies>>

NoticeServes(r) ==
  \/ QueueNotice(r) \/ StartJob(r) \/ ListNotices(r) \/ NextBatch(r) \/ GiveUp(r)
  \/ Send(r) \/ WriteSent(r) \/ WriteFailed(r) \/ FinishJob(r) \/ FailJob(r)

NoticeNext ==
  /\ \/ \E r \in Request : NoticeServes(r) \/ (Die(r) /\ UNCHANGED noticeVars)
     \/ GenerateNotice \/ \E n \in Notice : BackoffElapses(n)
  /\ UNCHANGED mode

NoticeSpec == NoCalls /\ NoticeInit /\ [][NoticeNext]_<<mode, call, noticeVars>>

-------------------------------------------------------------------------------
NoticeTypeOK ==
  /\ running \subseteq Job
  /\ notice \in [Notice -> [status : {"NONE", "PENDING", "SENT", "FAILED"},
                            attempts : 0 .. MaxAttempts, waiting : BOOLEAN]]
  /\ handed \in [Notice -> Nat] /\ delivered \in [Notice -> Nat]
  /\ denied \in [Notice -> Nat] /\ lost \in [Notice -> Nat]

AtMostThreeAttempts == \A n \in Notice : handed[n] <= MaxAttempts + lost[n]

DeliveredOnce ==
  \A n \in Notice : /\ delivered[n] <= 1 + lost[n] + denied[n]
                    /\ notice[n].status = "SENT" => delivered[n] > denied[n]

\* A notice is attempted three times at most (MAX_RETRY_ATTEMPTS, D-055), and is not
\* handed over again once the provider has answered that it delivered it, but for the
\* attempts that a failing run leaves unrecorded (run-job.ts releases the job, and its
\* notices stay eligible) and the deliveries that the provider threw about: neither an
\* overlapping run, nor the request that queued it, nor the run after a death adds one;
\* and what is SENT has been delivered.
NoticesGoOutOnce == AtMostThreeAttempts /\ DeliveredOnce

\* "Not stuck forever": as long as no process dies, and the scheduler keeps calling the
\* jobs, a notice is SENT, has been tried three times or is given up in the end.
Settled(n) == notice[n].status = "SENT" \/ notice[n].attempts = MaxAttempts
NoticeSettles == \A n \in Notice : ~mode.faults /\ notice[n].status = "PENDING" ~> Settled(n)

================================================================================
