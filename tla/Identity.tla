------------------------------- MODULE Identity --------------------------------
(***************************************************************************)
(* Verifying the driver of a gate event: a provider call, an on-device     *)
(* match with an idempotency key and a rate limit, or a supervisor-approved*)
(* manual fallback.  The outcome columns and the status are two updates.   *)
(***************************************************************************)
EXTENDS GateEvents

PendingIdentity(e) == event[e].status = "IDENTITY_PENDING"

\* verifyIdentityForGateEvent: the provider is called between the status check
\* and the update.
VerifyIdentity(r) ==
  \E u \in User, e \in Event, outcome \in {"VERIFIED", "NOT_VERIFIED"} :
    /\ PendingIdentity(e)
    /\ Serve(r, [Call("verify", "recordIdentity", u) EXCEPT !.event = e, !.arg = outcome])
    /\ UNCHANGED rows

\* runOnDeviceFacialVerificationAttempt: a key that is already a row is answered
\* from it; the status and the rate limit are separate reads, and the match is
\* abstracted to its outcome.  The synthetic variant runs the same statements.
AttemptVerification(r, op) ==
  \E u \in User, e \in Event, k \in Attempt, outcome \in {"VERIFIED", "NOT_VERIFIED"} :
    /\ Exists(e)
    /\ attempt[k] = NoAttempt
    /\ Serve(r, [Call(op, "readPending", u) EXCEPT !.event = e, !.row = k, !.arg = outcome])
    /\ UNCHANGED rows

RunOnDeviceVerification(r) == AttemptVerification(r, "onDevice")
RunSyntheticVerification(r) == AttemptVerification(r, "synthetic")

ReadPending(r) ==
  LET q == request[r] IN
  /\ q.at = "readPending"
  /\ Continue(r, PendingIdentity(q.event), "countAttempts")
  /\ UNCHANGED rows

RecentAttempts(e) == {k \in Attempt : attempt[k].event = e /\ attempt[k].recent}

\* (variant) the rate limit with > for >=
CountAttemptsBefore(r) ==
  LET q == request[r] IN
  /\ q.at = "countAttempts"
  /\ Continue(r, Cardinality(RecentAttempts(q.event)) <= RateLimit, "insertAttempt")
  /\ UNCHANGED rows

CountAttempts(r) ==
  LET q == request[r] IN
  /\ q.at = "countAttempts"
  /\ Continue(r, Cardinality(RecentAttempts(q.event)) < RateLimit, "insertAttempt")
  /\ UNCHANGED rows

\* The unique (tenantId, idempotencyKey) makes the second of two equal keys throw.
InsertAttempt(r) ==
  LET q == request[r] IN
  /\ q.at = "insertAttempt"
  /\ Continue(r, attempt[q.row] = NoAttempt, "recordIdentity")
  /\ attempt' = [attempt EXCEPT ![q.row] =
                   IF @ = NoAttempt THEN [event |-> q.event, recent |-> TRUE] ELSE @]
  /\ UNCHANGED <<movement, available, event, earlier, exception, fallback,
                 reconciliation>>

\* VERIFICATION_ATTEMPT_RATE_WINDOW_MINUTES after it was made, an attempt no
\* longer counts.
WindowPasses(k) ==
  /\ attempt[k].recent
  /\ attempt' = [attempt EXCEPT ![k].recent = FALSE]
  /\ UNCHANGED <<movement, available, event, earlier, exception, fallback,
                 reconciliation, request>>

\* (variant) the identity update without its test of the result
RecordIdentityAndGoOn(r) ==
  LET q == request[r] IN
  /\ q.at = "recordIdentity"
  /\ event' = [event EXCEPT ![q.event].identity = q.arg]
  /\ request' = [request EXCEPT ![r].at = "checkEvent", ![r].to = "IDENTITY_VERIFIED"]
  /\ UNCHANGED <<movement, available, earlier, exception, attempt, fallback,
                 reconciliation>>

\* The update of the identity columns: identityVerifiedAt is set exactly when the
\* outcome verifies.  Only then the transition to IDENTITY_VERIFIED follows.
RecordIdentity(r) ==
  LET q == request[r] IN
  /\ q.at = "recordIdentity"
  /\ event' = [event EXCEPT ![q.event].identity = q.arg]
  /\ request' = [request EXCEPT ![r] =
       IF q.arg = "NOT_VERIFIED" THEN Idle
       ELSE [@ EXCEPT !.at = "checkEvent", !.to = "IDENTITY_VERIFIED"]]
  /\ UNCHANGED <<movement, available, earlier, exception, attempt, fallback,
                 reconciliation>>

-------------------------------------------------------------------------------
\* requestManualFallback, behind the route's own status check.
RequestManualFallback(r) ==
  \E u \in User, e \in Event :
    /\ PendingIdentity(e)
    /\ Serve(r, [Call("requestFallback", "findFallback", u) EXCEPT !.event = e])
    /\ UNCHANGED rows

FindFallback(r) ==
  LET q == request[r] IN
  /\ q.at = "findFallback"
  /\ Continue(r, \A f \in Fallback : fallback[f].event = q.event
                                       => fallback[f].status # "PENDING",
              "insertFallback")
  /\ UNCHANGED rows

InsertFallback(r) ==
  LET q == request[r] IN
  /\ q.at = "insertFallback"
  /\ \/ \E f \in Fallback :
          /\ fallback[f] = NoFallback
          /\ fallback' = [fallback EXCEPT ![f] =
                            [event |-> q.event, status |-> "PENDING",
                             requestedBy |-> q.user, approvedBy |-> None]]
     \/ /\ \A f \in Fallback : fallback[f] # NoFallback
        /\ UNCHANGED fallback
  /\ Finish(r)
  /\ UNCHANGED <<movement, available, event, earlier, exception, attempt,
                 reconciliation>>

ResolveManualFallback(r) ==
  \E u \in User, f \in Fallback, decision \in {"APPROVED", "DENIED"} :
    /\ fallback[f].status = "PENDING"
    /\ fallback[f].requestedBy # u
    /\ Serve(r, [Call("resolveFallback", "writeFallback", u) EXCEPT !.row = f,
                                                                   !.to = decision])
    /\ UNCHANGED rows

WriteFallback(r) ==
  LET q == request[r] IN
  /\ q.at = "writeFallback"
  /\ fallback' = [fallback EXCEPT ![q.row] =
                    [@ EXCEPT !.status = q.to, !.approvedBy = q.user]]
  /\ Finish(r)
  /\ UNCHANGED <<movement, available, event, earlier, exception, attempt,
                 reconciliation>>

\* (variant) the outcome column filled from the status of the fallback
MarkVerifiedByStatus(r) ==
  \E u \in User, e \in Event, f \in Fallback :
    /\ PendingIdentity(e)
    /\ Serve(r, [Call("manual", "readFallback", u) EXCEPT
                   !.event = e, !.row = f, !.arg = fallback[f].status])
    /\ UNCHANGED rows

\* markIdentityVerifiedManually: the event, then the fallback, then the update.
MarkVerifiedManually(r) ==
  \E u \in User, e \in Event, f \in Fallback :
    /\ PendingIdentity(e)
    /\ Serve(r, [Call("manual", "readFallback", u) EXCEPT
                   !.event = e, !.row = f, !.arg = "MANUAL_FALLBACK_APPROVED"])
    /\ UNCHANGED rows

ReadFallback(r) ==
  LET q == request[r] IN
  /\ q.at = "readFallback"
  /\ Continue(r, /\ fallback[q.row].status = "APPROVED"
                 /\ fallback[q.row].event = q.event,
              "recordIdentity")
  /\ UNCHANGED rows

IdentityNext ==
  \/ \E k \in Attempt : WindowPasses(k)
  \/ \E r \in Request :
       \/ VerifyIdentity(r) \/ RunOnDeviceVerification(r) \/ RunSyntheticVerification(r)
       \/ ReadPending(r) \/ CountAttempts(r) \/ InsertAttempt(r) \/ RecordIdentity(r)
       \/ RequestManualFallback(r) \/ FindFallback(r) \/ InsertFallback(r)
       \/ ResolveManualFallback(r) \/ WriteFallback(r)
       \/ MarkVerifiedManually(r) \/ ReadFallback(r)

================================================================================
