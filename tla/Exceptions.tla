------------------------------ MODULE Exceptions -------------------------------
(***************************************************************************)
(* The guided inspection and the exceptions raised on a gate event, in     *)
(* gate-event-repository.ts.  One inspection item stands for all of them:  *)
(* no later check reads an item's outcome.                                 *)
(***************************************************************************)
EXTENDS Identity

\* The outcome of an item, a FAIL split by whether it needs a supervisor.
Outcome == {"PASS", "FAIL_MINOR", "FAIL_SERIOUS"}

RecordInspectionResult(r) ==
  \E u \in User, e \in Event, outcome \in Outcome :
    /\ event[e].status = "VEHICLE_CHECKS_IN_PROGRESS"
    /\ Serve(r, [Call("inspect", "writeItem", u) EXCEPT !.event = e, !.arg = outcome])
    /\ UNCHANGED rows

\* (variant) an exception only for items that need a supervisor
WriteItemRaiseSerious(r) ==
  LET q == request[r] IN
  /\ q.at = "writeItem"
  /\ event' = [event EXCEPT ![q.event].item = q.arg]
  /\ Continue(r, q.arg = "FAIL_SERIOUS", "readEvent")
  /\ UNCHANGED <<movement, available, earlier, exception, attempt, fallback,
                 reconciliation>>

WriteItem(r) ==
  LET q == request[r] IN
  /\ q.at = "writeItem"
  /\ event' = [event EXCEPT ![q.event].item = q.arg]
  /\ Continue(r, q.arg # "PASS", "readEvent")
  /\ UNCHANGED <<movement, available, earlier, exception, attempt, fallback,
                 reconciliation>>

\* raiseException: the status read here decides, after the insert, whether the
\* transition is attempted at all.  Any existing event will do.
RaiseException(r) ==
  \E u \in User, e \in Event, severity \in {"FAIL_MINOR", "FAIL_SERIOUS"} :
    /\ Exists(e)
    /\ Serve(r, [Call("raise", "insertException", u) EXCEPT
                   !.event = e, !.arg = severity, !.seen = event[e].status])
    /\ UNCHANGED rows

ReadRaisingEvent(r) ==
  LET q == request[r] IN
  /\ q.at = "readEvent"
  /\ request' = [request EXCEPT ![r].at = "insertException",
                                ![r].seen = event[q.event].status]
  /\ UNCHANGED rows

RaisedException(e, u, serious, item) ==
  [NoException EXCEPT !.event = e, !.raisedBy = u, !.serious = serious, !.item = item]

InsertException(r) ==
  LET q == request[r] IN
  /\ q.at = "insertException"
  /\ \/ \E x \in Exception :
          /\ exception[x] = NoException
          /\ exception' = [exception EXCEPT ![x] =
               RaisedException(q.event, q.user, q.arg = "FAIL_SERIOUS", q.op = "inspect")]
     \/ /\ \A x \in Exception : exception[x] # NoException
        /\ UNCHANGED exception
  /\ request' = [request EXCEPT ![r] =
       IF <<q.seen, "EXCEPTION_RAISED">> \in GateEventTransitions
          /\ exception' # exception
       THEN [@ EXCEPT !.at = "checkEvent", !.to = "EXCEPTION_RAISED"] ELSE Idle]
  /\ UNCHANGED <<movement, available, event, earlier, attempt, fallback,
                 reconciliation>>

-------------------------------------------------------------------------------
ContinueOutcome == {"CONTINUE"}   \* WARNING, CLEARED_WITH_OBSERVATION, ...
BlockOutcome == {"BLOCK"}         \* WORKSHOP_LOCKOUT, SECURITY_HOLD, DENIED

\* (variant) resolveException without its check of the raiser
MayResolveOwn(u, x) ==
  LET status == event[exception[x].event].status IN
  /\ exception[x] # NoException
  /\ exception[x].resolvedBy = None
  /\ IF exception[x].serious THEN status = "SUPERVISOR_REVIEW"
     ELSE status \in {"EXCEPTION_RAISED", "SUPERVISOR_REVIEW"}

\* The exception and its event are one read (include); the rules on both.
MayResolve(u, x) ==
  LET status == event[exception[x].event].status IN
  /\ exception[x] # NoException
  /\ exception[x].resolvedBy = None
  /\ IF exception[x].serious
     THEN exception[x].raisedBy # u /\ status = "SUPERVISOR_REVIEW"
     ELSE status \in {"EXCEPTION_RAISED", "SUPERVISOR_REVIEW"}

\* resolveException: check, resolve the exception, then move the event on.
ResolveException(r) ==
  \E u \in User, x \in Exception, outcome \in ContinueOutcome \cup BlockOutcome :
    /\ MayResolve(u, x)
    /\ Serve(r, [Call("resolve", "writeResolution", u) EXCEPT
                   !.event = exception[x].event, !.row = x, !.arg = outcome])
    /\ UNCHANGED rows

WriteResolution(r) ==
  LET q == request[r] IN
  /\ q.at = "writeResolution"
  /\ exception' = [exception EXCEPT ![q.row] =
                     [@ EXCEPT !.resolvedBy = q.user, !.outcome = q.arg]]
  /\ request' = [request EXCEPT ![r].at = "checkEvent",
       ![r].to = IF q.arg \in BlockOutcome THEN "DENIED" ELSE "VEHICLE_CHECKS_IN_PROGRESS"]
  /\ UNCHANGED <<movement, available, event, earlier, attempt, fallback,
                 reconciliation>>

ExceptionNext ==
  \E r \in Request :
    \/ RecordInspectionResult(r) \/ WriteItem(r) \/ RaiseException(r)
    \/ ReadRaisingEvent(r) \/ InsertException(r)
    \/ ResolveException(r) \/ WriteResolution(r)

================================================================================
