------------------------------ MODULE MCOperations -----------------------------
(***************************************************************************)
(* Small instances of the smaller components, which share nothing: in each *)
(* behaviour one of them moves, with requests one at a time or racing, and *)
(* with or without deaths of the processes that serve them.                *)
(***************************************************************************)
EXTENDS MobileReceipts, Biometrics, Discrepancies, Notices, BillingEmails, Telematics,
        Analytics, Trackers

VARIABLE part   \* the component that moves

vars == <<part, mode, call, mobileVars, biometricVars, discrepancyVars,
          noticeVars, emailVars, telematicsVars, analyticsVars, trackerVars>>

AllBut(moving) ==
  /\ moving # "receipts" => UNCHANGED mobileVars
  /\ moving # "templates" => UNCHANGED biometricVars
  /\ moving # "discrepancies" => UNCHANGED discrepancyVars
  /\ moving # "notices" => UNCHANGED noticeVars
  /\ moving # "emails" => UNCHANGED emailVars
  /\ moving # "episodes" => UNCHANGED telematicsVars
  /\ moving # "indicators" => UNCHANGED analyticsVars
  /\ moving # "trackers" => UNCHANGED trackerVars

Parts ==
  {"receipts", "templates", "discrepancies", "notices", "emails", "episodes", "indicators",
   "trackers"}

Regime(moving, serial, faults) == [part |-> moving, serial |-> serial, faults |-> faults]

\* Racing requests and deaths wherever a property claims to withstand them; none where
\* something must happen in the end, and one at a time where only that is promised.
Regimes ==
  {Regime(moving, FALSE, TRUE) : moving \in Parts \ {"episodes"}}
    \cup {Regime("receipts", FALSE, FALSE), Regime("notices", FALSE, FALSE),
          Regime("discrepancies", TRUE, FALSE), Regime("indicators", TRUE, FALSE),
          Regime("trackers", TRUE, TRUE)}
    \cup {Regime("episodes", TRUE, faults) : faults \in BOOLEAN}

\* Where requests race, one evaluation window is enough.
WindowsInBounds ==
  \/ part = "indicators" /\ mode.serial
  \/ day = 1 /\ rule.period = 1 /\ rule.cooldown = 1

MCInit ==
  /\ NoCalls /\ MobileInit /\ BiometricInit /\ DiscrepancyInit /\ NoticeInit
  /\ EmailInit /\ TelematicsInit /\ AnalyticsInit /\ TrackerInit
  /\ part \in Parts
  /\ Regime(part, mode.serial, mode.faults) \in Regimes
  /\ WindowsInBounds

\* The rows that are used next, in this order.
First(S) == CHOOSE x \in S : TRUE
InOrder(table, next, fresh) ==
  \A x \in DOMAIN table : table[x] = fresh /\ next[x] # fresh =>
    x = First({y \in DOMAIN table : table[y] = fresh})

MCNext ==
  /\ UNCHANGED part
  /\ AllBut(part)
  /\ \/ part = "receipts" /\ MobileNext
     \/ part = "templates" /\ BiometricNext /\ InOrder(removal, removal', NoRemoval)
     \/ part = "discrepancies" /\ DiscrepancyNext
     \/ part = "notices" /\ NoticeNext
     \/ part = "emails" /\ EmailNext
     \/ part = "episodes" /\ TelematicsNext
     \/ /\ part = "indicators" /\ AnalyticsNext /\ InOrder(opened, opened', None)
        /\ WindowsInBounds'
     \/ part = "trackers" /\ TrackerNext /\ InOrder(mapping, mapping', NoMapping)

\* Every table and every request keeps its shape; what is tried is counted up to three.
OperationsTypeOK ==
  /\ part \in Parts
  /\ part = "receipts" => MobileTypeOK
  /\ BiometricTypeOK /\ DiscrepancyTypeOK /\ NoticeTypeOK /\ EmailTypeOK
  /\ TelematicsTypeOK /\ AnalyticsTypeOK /\ TrackerTypeOK

-------------------------------------------------------------------------------
\* A request that a process serves goes on; time passes; the scheduler calls each job
\* again and again.  No client has to ask for anything.
Continues(r) ==
  \/ /\ part = "receipts"
     /\ \/ ReadReceipt(r) \/ RunMutation(r) \/ FinishMutation(r)
        \/ ReleaseReceipt(r) \/ CompleteReceipt(r)
  \/ /\ part = "notices"
     /\ ListNotices(r) \/ NextBatch(r) \/ GiveUp(r) \/ Send(r) \/ WriteSent(r) \/ WriteFailed(r)
          \/ FinishJob(r)
Continued(r) == Continues(r) /\ UNCHANGED <<part, mode>> /\ AllBut(part)

Elapses(n) ==
  part = "notices" /\ BackoffElapses(n) /\ UNCHANGED <<part, mode>> /\ AllBut(part)

Called(job, r) ==
  /\ part = "notices" /\ StartJob(r) /\ job \in running' \ running
  /\ UNCHANGED <<part, mode>> /\ AllBut(part)

MCSpec ==
  /\ MCInit /\ [][MCNext]_vars
  /\ \A r \in Request : WF_vars(Continued(r))
  /\ \A n \in Notice : WF_vars(Elapses(n))
  /\ \A job \in Job : SF_vars(\E r \in Request : Called(job, r))

================================================================================
