---------------------------- MODULE GateOperations ----------------------------
(***************************************************************************)
(* The gate workflow as a whole: the movements, the gate events, the       *)
(* identity checks, the exceptions and the pairing of legs, over one set   *)
(* of tables, with requests that interleave statement by statement.        *)
(***************************************************************************)
EXTENDS Pairing

Next ==
  \/ MovementNext
  \/ GateEventNext
  \/ IdentityNext
  \/ ExceptionNext
  \/ PairingNext
  \/ \E r \in Request : Crash(r)

Spec == Init /\ [][Next]_vars

-------------------------------------------------------------------------------
MovementRow ==
  [status : MovementStatus \cup {"NONE"}, requester : User \cup {None},
   approver : User \cup {None}]

EventRow ==
  [status : GateEventStatus \cup {"NONE"}, movement : Movement \cup {None},
   direction : Direction \cup {"NONE"}, decision : {"NONE", "CLEARED", "DENIED"},
   identity : Identity \cup {"NONE"}, item : Outcome \cup {"NONE"}]

ExceptionRow ==
  [event : Event \cup {None}, serious : BOOLEAN, item : BOOLEAN,
   raisedBy : User \cup {None}, resolvedBy : User \cup {None},
   outcome : ContinueOutcome \cup BlockOutcome \cup {"NONE"}]

AttemptRow == [event : Event \cup {None}, recent : BOOLEAN]

FallbackRow ==
  [event : Event \cup {None}, status : {"NONE", "PENDING", "APPROVED", "DENIED"},
   requestedBy : User \cup {None}, approvedBy : User \cup {None}]

PairRow == [departure : Event \cup {None}, return : Event \cup {None}]

Step ==
  {"idle", "insertMovement", "writeMovement", "checkMovement", "readAuthorisation",
   "readFleet", "insertEvent", "checkEvent", "writeEvent", "readMovement",
   "readPending", "countAttempts", "insertAttempt", "recordIdentity", "findFallback",
   "insertFallback", "writeFallback", "readFallback", "writeItem", "readEvent",
   "insertException", "writeResolution", "findPair", "insertPair", "raiseDiscrepancy"}

Operation ==
  {"none", "createMovement", "submitMovement", "approveMovement", "rejectMovement",
   "cancelMovement", "changeAvailability", "start", "identityPending", "beginChecks", "escalate", "deny",
   "cancel", "clear", "complete", "verify", "onDevice", "synthetic", "requestFallback",
   "resolveFallback", "manual", "inspect", "raise", "resolve", "reconcile",
   "reconcilePair"}

RequestRow ==
  [at : Step, op : Operation, user : User \cup {None},
   movement : Movement \cup {None}, event : Event \cup {None},
   row : UNION {Event, Exception, Attempt, Fallback, {None}},
   to : UNION {GateEventStatus, MovementStatus, {"NONE", "APPROVED", "DENIED"}},
   arg : UNION {Direction, Identity, Outcome, ContinueOutcome, BlockOutcome, {"NONE"}},
   seen : GateEventStatus \cup {"NONE"}]

RowsTypeOK ==
  /\ movement \in [Movement -> MovementRow]
  /\ available \in [Movement -> SUBSET {"driver", "vehicle"}]
  /\ event \in [Event -> EventRow]
  /\ earlier \in [Event -> SUBSET Event]
  /\ exception \in [Exception -> ExceptionRow]
  /\ attempt \in [Attempt -> AttemptRow]
  /\ fallback \in [Fallback -> FallbackRow]
  /\ reconciliation \in [Movement -> PairRow]

\* Every row and every request in flight keeps its shape.
TypeOK == RowsTypeOK /\ request \in [Request -> RequestRow]

-------------------------------------------------------------------------------
(* What holds however requests interleave, and wherever they die.          *)

\* A serious exception is never resolved by the user who raised it
\* (resolveException, "unconditionally"), although the row is updated after the
\* check and another resolution may have come in between.
SeriousNeedsAnotherUser ==
  \A x \in Exception :
    exception[x].serious => exception[x].resolvedBy \notin {exception[x].raisedBy} \ {None}

\* Unless the tenant opted in, the approver of an APPROVED movement is not its
\* requester, even if approvals, rejections and the gate's own updates of the row
\* overtake each other.
ApproverIsNotRequester ==
  \A m \in Movement : movement[m].status = "APPROVED" /\ ~AllowSelfApprove
    => movement[m].approver \notin {None, movement[m].requester}

\* The decision on the row agrees with the status: a CLEARED event was decided
\* CLEARED, a DENIED one DENIED, a COMPLETED one was decided at all - also when
\* an update that was checked earlier lands late.
DecisionMatchesStatus ==
  \A e \in Event :
    /\ event[e].status \in {"CLEARED", "DENIED"} => event[e].decision = event[e].status
    /\ event[e].status = "COMPLETED" => event[e].decision # "NONE"

\* A manual fallback is never resolved by the user who requested it, and an event
\* is verified by one only if another user resolved a request for that event.
FallbackNeedsAnotherUser ==
  /\ \A f \in Fallback :
       fallback[f].approvedBy # None => fallback[f].approvedBy # fallback[f].requestedBy
  /\ \A e \in Event : event[e].identity = "MANUAL_FALLBACK_APPROVED" =>
       \E f \in Fallback : fallback[f].event = e /\ fallback[f].approvedBy # None

\* Separation of duties at the gate: an approval, the resolution of a serious
\* exception and a manual fallback each take two users, although every one of these
\* rows is updated statements after the rule was checked.
DecisionsTakeTwoUsers ==
  SeriousNeedsAnotherUser /\ ApproverIsNotRequester /\ FallbackNeedsAnotherUser

\* The paired legs of a movement are two different events of that movement in
\* opposite directions, both decided, whatever requests built the pair.
PairIsOutAndBack ==
  \A m \in Movement : reconciliation[m] # NoPair =>
    LET d == reconciliation[m].departure  t == reconciliation[m].return IN
    /\ d # t
    /\ event[d].movement = m /\ event[t].movement = m
    /\ event[d].direction # event[t].direction
    /\ event[d].decision # "NONE" /\ event[t].decision # "NONE"

\* The rate limit on verification attempts counts and inserts in two statements:
\* requests in flight can overshoot it, but each by one at most.
AttemptsStayNearTheLimit ==
  \A e \in Event :
    Cardinality(RecentAttempts(e)) < RateLimit + (IF Serial THEN 1 ELSE Cardinality(Request))

-------------------------------------------------------------------------------
(* What holds when requests are served one at a time.                      *)

\* startGateEvent: at most one open gate event per movement.
OneOpenEventPerMovement ==
  \A d, e \in Event : Open(d) /\ Open(e) /\ event[d].movement = event[e].movement => d = e

\* An event goes to the vehicle checks with a verified driver or with an exception
\* on record, and so does everything decided after the checks.
IdentityOrException ==
  \A e \in Event :
    event[e].status \in {"VEHICLE_CHECKS_IN_PROGRESS", "CLEARED", "DENIED", "COMPLETED"}
      => \/ event[e].identity \in {"VERIFIED", "MANUAL_FALLBACK_APPROVED"}
         \/ \E x \in Exception : exception[x].event = e

\* A movement is under way only if the gate has let the vehicle in, on the approval
\* of another user than the requester.
UnderWayMeansEntered ==
  \A m \in Movement : movement[m].status = "IN_PROGRESS" =>
    /\ AllowSelfApprove \/ movement[m].approver \notin {None, movement[m].requester}
    /\ \E e \in Event : /\ event[e].movement = m /\ event[e].direction = "ENTRY"
                        /\ event[e].decision = "CLEARED"

\* clearGateEvent re-checks the vehicle: a visit is never CLEARED while its vehicle
\* is locked out.
LockedVehicleNotCleared ==
  [][\A e \in Event : event[e].status # "CLEARED" /\ event'[e].status = "CLEARED"
        => "vehicle" \in available[event[e].movement]]_vars

\* An inspection item recorded as failed has an exception raised from it once no
\* request is in flight (the set Exception bounds how many there can be).
FailureIsRaised ==
  Quiescent =>
    \A e \in Event : event[e].item \in {"FAIL_MINOR", "FAIL_SERIOUS"} =>
      \/ \E x \in Exception : exception[x].event = e /\ exception[x].item
      \/ \A x \in Exception : exception[x] # NoException

\* Once both legs of a movement are completed and cleared and no request is in
\* flight, they are paired: completing the second leg built the reconciliation.
JourneyIsPaired ==
  Quiescent => \A m \in Movement :
    (\E d, t \in Legs(m) : event[d].direction # event[t].direction)
      => reconciliation[m] # NoPair

-------------------------------------------------------------------------------
(* Served one at a time, the requests implement the lifecycle of visits.   *)

Lifecycle == INSTANCE VisitLifecycle WITH
  authorisation <- [m \in Movement |-> movement[m].status],
  visit <- [e \in Event |-> event[e].status],
  owner <- [e \in Event |-> event[e].movement],
  direction <- [e \in Event |-> event[e].direction]

\* Every statement of every handler is a step of the lifecycle or leaves it alone,
\* also when handlers die between their statements.
ImplementsLifecycle == Lifecycle!Spec

-------------------------------------------------------------------------------
(* What the documentation says and the code does not keep.                 *)

\* ARCHITECTURE.md: WORKSHOP_LOCKOUT, SECURITY_HOLD and DENIED terminate the event at
\* DENIED - once the request that resolved the exception so has ended.
BlockingOutcomeDenies ==
  Quiescent => \A x \in Exception : exception[x].outcome \in BlockOutcome =>
    event[exception[x].event].decision = "DENIED"

\* ARCHITECTURE.md: a visiting vehicle entering then leaving works like one leaving
\* then returning, so after a first cleared leg the second may start, which
\* startGateEvent allows an APPROVED movement only.
SecondLegMayStart ==
  Quiescent => \A m \in Movement :
    Cardinality(Legs(m)) = 1 /\ movement[m].status # "CANCELLED" => movement[m].status = "APPROVED"

================================================================================
