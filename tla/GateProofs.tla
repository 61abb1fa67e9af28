------------------------------ MODULE GateProofs ------------------------------
(***************************************************************************)
(* What is proved of the gate workflow, for tables and request sets of any *)
(* size.  First what holds however its requests interleave and wherever    *)
(* they die: each invariant follows from Inductive, which holds initially  *)
(* and which every statement of every handler preserves.  Then how far     *)
(* past its limit the attempts run, and that a failed item is raised when  *)
(* no request dies.  Last, what needs the requests to be served one at a   *)
(* time: the life cycle of a visit as the refinement of an abstract one,   *)
(* when no request dies either, the pairing of the journeys, and what then *)
(* never changes again.                                                    *)
(***************************************************************************)
EXTENDS GateLemmas, FiniteSetTheorems

\* Empty tables and no requests: nothing to violate.
LEMMA InitInductive == Init => Inductive
  <1> SUFFICES ASSUME Init PROVE Inductive
    OBVIOUS
  <1>1. \A r \in Request : request[r] = Idle
    BY DEF Init
  <1>2. TypeOK
    <2>1. RowsTypeOK
      BY DEF Init, RowsTypeOK, MovementRow, EventRow, ExceptionRow, AttemptRow, FallbackRow,
             PairRow, NoMovement, NoEvent, NoException, NoAttempt, NoFallback, NoPair
    <2> QED BY <2>1, IdleSound DEF Init, TypeOK
  <1>3. RowsSound
    BY DEF Init, RowsSound, NoException, NoFallback
  <1>4. Safe
    BY DEF Init, Safe, SeriousNeedsAnotherUser, ApproverIsNotRequester,
           DecisionMatchesStatus, FallbackNeedsAnotherUser, PairIsOutAndBack,
           NoMovement, NoEvent, NoException, NoFallback
  <1> QED BY <1>1, <1>2, <1>3, <1>4, IdleSound DEF Inductive, WellFormed, Sound, Idle

\* A stuttering step.
LEMMA StutterKeeps ==
  ASSUME Inductive, UNCHANGED vars
  PROVE  Inductive'
  BY Still, Unasked DEF vars

\* Every step of the movements.
LEMMA MovementNextKeeps ==
  ASSUME Inductive, MovementNext
  PROVE  Inductive'
  <1>1. ASSUME NEW m \in Movement, ChangeAvailability(m) PROVE Inductive'
    BY <1>1, ChangeAvailabilityKeeps
  <1>2. ASSUME NEW r \in Request,
               CreateMovement(r) \/ InsertMovement(r) \/ SubmitMovement(r) \/
               ApproveMovement(r) \/ RejectMovement(r) \/ CancelMovement(r) \/
               StartOrCompleteMovement(r) \/ WriteMovement(r)
        PROVE  Inductive'
    <2>1. CASE CreateMovement(r)
      BY <2>1, CreateMovementKeeps
    <2>2. CASE InsertMovement(r)
      BY <2>2, InsertMovementKeeps
    <2>3. CASE SubmitMovement(r)
      BY <2>3, SubmitMovementKeeps
    <2>4. CASE ApproveMovement(r)
      BY <2>4, ApproveMovementKeeps
    <2>5. CASE RejectMovement(r)
      BY <2>5, RejectMovementKeeps
    <2>6. CASE CancelMovement(r)
      BY <2>6, CancelMovementKeeps
    <2>7. CASE StartOrCompleteMovement(r)
      BY <2>7, StartOrCompleteMovementKeeps
    <2>8. CASE WriteMovement(r)
      BY <2>8, WriteMovementKeeps
    <2> QED BY <1>2, <2>1, <2>2, <2>3, <2>4, <2>5, <2>6, <2>7, <2>8
  <1> QED BY <1>1, <1>2 DEF MovementNext

\* Every step of the gate events.
LEMMA GateEventNextKeeps ==
  ASSUME Inductive, GateEventNext
  PROVE  Inductive'
  <1>1. ASSUME NEW r \in Request,
               StartGateEvent(r) \/ ReadAuthorisation(r) \/ ReadFleet(r) \/
               InsertGateEvent(r) \/ CheckTransition(r) \/ WriteTransition(r) \/
               ReadMovement(r) \/ MoveToIdentityPending(r) \/
               BeginVehicleChecks(r) \/ EscalateException(r) \/ DenyGateEvent(r) \/
               CancelGateEvent(r) \/ ClearGateEvent(r) \/ CompleteGateEvent(r)
        PROVE  Inductive'
    <2>1. CASE StartGateEvent(r)
      BY <2>1, StartGateEventKeeps
    <2>2. CASE ReadAuthorisation(r)
      BY <2>2, ReadAuthorisationKeeps
    <2>3. CASE ReadFleet(r)
      BY <2>3, ReadFleetKeeps
    <2>4. CASE InsertGateEvent(r)
      BY <2>4, InsertGateEventKeeps
    <2>5. CASE CheckTransition(r)
      BY <2>5, CheckTransitionKeeps
    <2>6. CASE WriteTransition(r)
      BY <2>6, WriteTransitionKeeps
    <2>7. CASE ReadMovement(r)
      BY <2>7, ReadMovementKeeps
    <2>8. CASE MoveToIdentityPending(r)
      BY <2>8, MoveToIdentityPendingKeeps
    <2>9. CASE BeginVehicleChecks(r)
      BY <2>9, BeginVehicleChecksKeeps
    <2>10. CASE EscalateException(r)
      BY <2>10, EscalateExceptionKeeps
    <2>11. CASE DenyGateEvent(r)
      BY <2>11, DenyGateEventKeeps
    <2>12. CASE CancelGateEvent(r)
      BY <2>12, CancelGateEventKeeps
    <2>13. CASE ClearGateEvent(r)
      BY <2>13, ClearGateEventKeeps
    <2>14. CASE CompleteGateEvent(r)
      BY <2>14, CompleteGateEventKeeps
    <2> QED BY <1>1, <2>1, <2>2, <2>3, <2>4, <2>5, <2>6, <2>7, <2>8, <2>9, <2>10, <2>11,
               <2>12, <2>13, <2>14
  <1> QED BY <1>1 DEF GateEventNext

\* Every step of the identity check.
LEMMA IdentityNextKeeps ==
  ASSUME Inductive, IdentityNext
  PROVE  Inductive'
  <1>1. ASSUME NEW k \in Attempt, WindowPasses(k) PROVE Inductive'
    BY <1>1, WindowPassesKeeps
  <1>2. ASSUME NEW r \in Request,
               VerifyIdentity(r) \/ RunOnDeviceVerification(r) \/
               RunSyntheticVerification(r) \/ ReadPending(r) \/ CountAttempts(r) \/
               InsertAttempt(r) \/ RecordIdentity(r) \/ RequestManualFallback(r) \/
               FindFallback(r) \/ InsertFallback(r) \/ ResolveManualFallback(r) \/
               WriteFallback(r) \/ MarkVerifiedManually(r) \/ ReadFallback(r)
        PROVE  Inductive'
    <2>1. CASE VerifyIdentity(r)
      BY <2>1, VerifyIdentityKeeps
    <2>2. CASE RunOnDeviceVerification(r)
      BY <2>2, RunOnDeviceVerificationKeeps
    <2>3. CASE RunSyntheticVerification(r)
      BY <2>3, RunSyntheticVerificationKeeps
    <2>4. CASE ReadPending(r)
      BY <2>4, ReadPendingKeeps
    <2>5. CASE CountAttempts(r)
      BY <2>5, CountAttemptsKeeps
    <2>6. CASE InsertAttempt(r)
      BY <2>6, InsertAttemptKeeps
    <2>7. CASE RecordIdentity(r)
      BY <2>7, RecordIdentityKeeps
    <2>8. CASE RequestManualFallback(r)
      BY <2>8, RequestManualFallbackKeeps
    <2>9. CASE FindFallback(r)
      BY <2>9, FindFallbackKeeps
    <2>10. CASE InsertFallback(r)
      BY <2>10, InsertFallbackKeeps
    <2>11. CASE ResolveManualFallback(r)
      BY <2>11, ResolveManualFallbackKeeps
    <2>12. CASE WriteFallback(r)
      BY <2>12, WriteFallbackKeeps
    <2>13. CASE MarkVerifiedManually(r)
      BY <2>13, MarkVerifiedManuallyKeeps
    <2>14. CASE ReadFallback(r)
      BY <2>14, ReadFallbackKeeps
    <2> QED BY <1>2, <2>1, <2>2, <2>3, <2>4, <2>5, <2>6, <2>7, <2>8, <2>9, <2>10, <2>11,
               <2>12, <2>13, <2>14
  <1> QED BY <1>1, <1>2 DEF IdentityNext

\* Every step of the inspection and the exceptions.
LEMMA ExceptionNextKeeps ==
  ASSUME Inductive, ExceptionNext
  PROVE  Inductive'
  <1>1. ASSUME NEW r \in Request,
               RecordInspectionResult(r) \/ WriteItem(r) \/ RaiseException(r) \/
               ReadRaisingEvent(r) \/ InsertException(r) \/ ResolveException(r) \/
               WriteResolution(r)
        PROVE  Inductive'
    <2>1. CASE RecordInspectionResult(r)
      BY <2>1, RecordInspectionResultKeeps
    <2>2. CASE WriteItem(r)
      BY <2>2, WriteItemKeeps
    <2>3. CASE RaiseException(r)
      BY <2>3, RaiseExceptionKeeps
    <2>4. CASE ReadRaisingEvent(r)
      BY <2>4, ReadRaisingEventKeeps
    <2>5. CASE InsertException(r)
      BY <2>5, InsertExceptionKeeps
    <2>6. CASE ResolveException(r)
      BY <2>6, ResolveExceptionKeeps
    <2>7. CASE WriteResolution(r)
      BY <2>7, WriteResolutionKeeps
    <2> QED BY <1>1, <2>1, <2>2, <2>3, <2>4, <2>5, <2>6, <2>7
  <1> QED BY <1>1 DEF ExceptionNext

\* Every step of the pairing.
LEMMA PairingNextKeeps ==
  ASSUME Inductive, PairingNext
  PROVE  Inductive'
  <1>1. ASSUME NEW r \in Request,
               ReconcileMovement(r) \/ ReconcilePair(r) \/ FindPair(r) \/
               InsertPair(r) \/ RaiseDiscrepancy(r)
        PROVE  Inductive'
    <2>1. CASE ReconcileMovement(r)
      BY <2>1, ReconcileMovementKeeps
    <2>2. CASE ReconcilePair(r)
      BY <2>2, ReconcilePairKeeps
    <2>3. CASE FindPair(r)
      BY <2>3, FindPairKeeps
    <2>4. CASE InsertPair(r)
      BY <2>4, InsertPairKeeps
    <2>5. CASE RaiseDiscrepancy(r)
      BY <2>5, RaiseDiscrepancyKeeps
    <2> QED BY <1>1, <2>1, <2>2, <2>3, <2>4, <2>5
  <1> QED BY <1>1 DEF PairingNext

\* Every statement of every handler preserves the strengthened invariant.
LEMMA NextInductive == Inductive /\ [Next]_vars => Inductive'
  <1> SUFFICES ASSUME Inductive, [Next]_vars PROVE Inductive'
    OBVIOUS
  <1>1. CASE MovementNext
    BY <1>1, MovementNextKeeps
  <1>2. CASE GateEventNext
    BY <1>2, GateEventNextKeeps
  <1>3. CASE IdentityNext
    BY <1>3, IdentityNextKeeps
  <1>4. CASE ExceptionNext
    BY <1>4, ExceptionNextKeeps
  <1>5. CASE PairingNext
    BY <1>5, PairingNextKeeps
  <1>6. ASSUME NEW r \in Request, Crash(r) PROVE Inductive'
    BY <1>6, CrashKeeps
  <1>7. CASE UNCHANGED vars
    BY <1>7, StutterKeeps
  <1> QED BY <1>1, <1>2, <1>3, <1>4, <1>5, <1>6, <1>7 DEF Next

\* The strengthened invariant: every row is sound, and every request in flight still
\* satisfies what its handler has checked so far.
THEOREM AlwaysInductive == Spec => []Inductive
  BY InitInductive, NextInductive, PTL DEF Spec

\* Every row and every request keeps its shape, whatever the handlers do.
THEOREM TypeCorrect == Spec => []TypeOK
  <1>1. Inductive => TypeOK
    BY DEF Inductive
  <1> QED BY <1>1, AlwaysInductive, PTL

\* resolveException: no serious exception is ever resolved by the user who raised it,
\* although the row is updated statements after the check.
THEOREM SeriousExceptionsNeedAnotherUser == Spec => []SeriousNeedsAnotherUser
  <1>1. Inductive => SeriousNeedsAnotherUser
    BY DEF Inductive, Safe
  <1> QED BY <1>1, AlwaysInductive, PTL

\* approveMovement: without the tenant's opt-in an APPROVED movement names an approver
\* who is not its requester, however its updates overtake each other.
THEOREM ApproversAreNotRequesters == Spec => []ApproverIsNotRequester
  <1>1. Inductive => ApproverIsNotRequester
    BY DEF Inductive, Safe
  <1> QED BY <1>1, AlwaysInductive, PTL

\* transitionGateEvent and its callers: the decision columns never contradict the status,
\* also when an update lands long after the table was checked.
THEOREM DecisionsMatchStatuses == Spec => []DecisionMatchesStatus
  <1>1. Inductive => DecisionMatchesStatus
    BY DEF Inductive, Safe
  <1> QED BY <1>1, AlwaysInductive, PTL

\* resolveManualFallback and markIdentityVerifiedManually: no fallback is resolved by its
\* requester, and a manual verification rests on a resolved fallback for that event.
THEOREM FallbacksNeedAnotherUser == Spec => []FallbackNeedsAnotherUser
  <1>1. Inductive => FallbackNeedsAnotherUser
    BY DEF Inductive, Safe
  <1> QED BY <1>1, AlwaysInductive, PTL

\* The three decisions that need two users, together, as the runs check them.
THEOREM DecisionsNeedTwoUsers == Spec => []DecisionsTakeTwoUsers
  <1>1. SeriousNeedsAnotherUser /\ ApproverIsNotRequester /\ FallbackNeedsAnotherUser
          => DecisionsTakeTwoUsers
    BY DEF DecisionsTakeTwoUsers
  <1> QED BY <1>1, SeriousExceptionsNeedAnotherUser, ApproversAreNotRequesters,
             FallbacksNeedAnotherUser, PTL

\* buildReconciliation: what is paired is two decided visits of one movement in opposite
\* directions, whichever requests built the pair.
THEOREM PairsAreOutAndBack == Spec => []PairIsOutAndBack
  <1>1. Inductive => PairIsOutAndBack
    BY DEF Inductive, Safe
  <1> QED BY <1>1, AlwaysInductive, PTL

-------------------------------------------------------------------------------
(* The statements by what they do to a request: the first of a handler     *)
(* only reads, those in between go on with the request or end it.          *)

Asks(r) ==
  \/ CreateMovement(r) \/ SubmitMovement(r) \/ ApproveMovement(r) \/ RejectMovement(r)
  \/ CancelMovement(r) \/ StartGateEvent(r) \/ MoveToIdentityPending(r)
  \/ BeginVehicleChecks(r) \/ EscalateException(r) \/ DenyGateEvent(r)
  \/ CancelGateEvent(r) \/ ClearGateEvent(r) \/ CompleteGateEvent(r)
  \/ VerifyIdentity(r) \/ RunOnDeviceVerification(r) \/ RunSyntheticVerification(r)
  \/ RequestManualFallback(r) \/ ResolveManualFallback(r) \/ MarkVerifiedManually(r)
  \/ RecordInspectionResult(r) \/ RaiseException(r) \/ ResolveException(r)
  \/ ReconcileMovement(r) \/ ReconcilePair(r)

Reads(r) ==
  \/ StartOrCompleteMovement(r) \/ ReadAuthorisation(r) \/ ReadFleet(r)
  \/ CheckTransition(r) \/ ReadMovement(r) \/ ReadPending(r) \/ CountAttempts(r)
  \/ FindFallback(r) \/ ReadFallback(r) \/ ReadRaisingEvent(r) \/ FindPair(r)

Writes(r) ==
  \/ InsertMovement(r) \/ WriteMovement(r) \/ InsertGateEvent(r) \/ WriteTransition(r)
  \/ InsertAttempt(r) \/ RecordIdentity(r) \/ InsertFallback(r) \/ WriteFallback(r)
  \/ WriteItem(r) \/ InsertException(r) \/ WriteResolution(r) \/ InsertPair(r)
  \/ RaiseDiscrepancy(r)

\* A step in which no request dies.
Living == MovementNext \/ GateEventNext \/ IdentityNext \/ ExceptionNext \/ PairingNext

\* Such a step is a statement of a request or a change from outside; the others are deaths.
LEMMA LivingStatements ==
  ASSUME Living
  PROVE  \/ \E m \in Movement : ChangeAvailability(m)
         \/ \E k \in Attempt : WindowPasses(k)
         \/ \E r \in Request : Asks(r) \/ Reads(r) \/ Writes(r)
  <1>1. CASE MovementNext
    BY <1>1 DEF MovementNext, Asks, Reads, Writes
  <1>2. CASE GateEventNext
    BY <1>2 DEF GateEventNext, Asks, Reads, Writes
  <1>3. CASE IdentityNext
    BY <1>3 DEF IdentityNext, Asks, Reads, Writes
  <1>4. CASE ExceptionNext
    BY <1>4 DEF ExceptionNext, Asks, Reads, Writes
  <1>5. CASE PairingNext
    BY <1>5 DEF PairingNext, Asks, Reads, Writes
  <1> QED BY <1>1, <1>2, <1>3, <1>4, <1>5 DEF Living

LEMMA Statements ==
  ASSUME Next
  PROVE  \/ \E m \in Movement : ChangeAvailability(m)
         \/ \E k \in Attempt : WindowPasses(k)
         \/ \E r \in Request : Asks(r) \/ Reads(r) \/ Writes(r) \/ Crash(r)
  BY LivingStatements DEF Next, Living

\* The statements a handler does not start with.
Later ==
  {"checkMovement", "readFleet", "insertEvent", "readMovement", "countAttempts",
   "insertAttempt", "insertFallback", "readEvent", "raiseDiscrepancy"}

\* The request a handler starts as.
LEMMA Begun ==
  ASSUME TypeOK, NEW r \in Request, NEW call, Serve(r, call)
  PROVE  /\ request[r] = Idle
         /\ Serial => Quiescent
         /\ request'[r] = call
         /\ request' = [request EXCEPT ![r] = call]
  BY DEF Serve, TypeOK

\* The exception x still waits to be resolved.
Waits(x) == event[exception[x].event].status \in {"EXCEPTION_RAISED", "SUPERVISOR_REVIEW"}

\* A handler that starts relies on what it has just read only; an inspection goes on to
\* its item, another handler does not, and none completes a movement at once.
StartsWell(c) ==
  /\ c.at \notin Later
  /\ c.at = "writeItem" => c.op = "inspect"
  /\ c.at = "writeMovement" => c.to # "COMPLETED"
  /\ c.at = "writeResolution" => Waits(c.row)
  /\ Timely(c)

\* A handler's first statement reads only, and finds nobody in flight if requests are
\* served one at a time.
LEMMA Asked ==
  ASSUME Inductive, NEW r \in Request, Asks(r), NEW c, c = request'[r]
  PROVE  /\ request[r] = Idle
         /\ Serial => Quiescent
         /\ UNCHANGED rows
         /\ request' = [request EXCEPT ![r] = c]
         /\ StartsWell(c)
  <1> SUFFICES \E call : Serve(r, call) /\ UNCHANGED rows /\ StartsWell(call)
    BY Begun DEF Inductive
  <1> USE DEF Call, Idle, Later, StartsWell, Timely, TimelyVisit, TimelyMove, TimelyMovement
  <1>1. CASE CreateMovement(r)
    <2>1. PICK u \in User, m \in Movement :
            /\ Serve(r, [Call("createMovement", "insertMovement", u) EXCEPT !.movement = m])
            /\ UNCHANGED rows
      BY <1>1 DEF CreateMovement
    <2> DEFINE call == [Call("createMovement", "insertMovement", u) EXCEPT !.movement = m]
    <2>2. StartsWell(call)
      OBVIOUS
    <2> QED BY <2>1, <2>2
  <1>2. CASE SubmitMovement(r) \/ ApproveMovement(r) \/ RejectMovement(r) \/ CancelMovement(r)
    <2>1. PICK u \in User, m \in Movement,
               op \in {"submitMovement", "approveMovement", "rejectMovement", "cancelMovement"},
               to \in {"SUBMITTED", "APPROVED", "REJECTED", "CANCELLED"} :
            AskMovement(r, op, u, m, to)
      BY <1>2 DEF SubmitMovement, ApproveMovement, RejectMovement, CancelMovement
    <2> DEFINE call == [Call(op, "writeMovement", u) EXCEPT !.movement = m, !.to = to]
    <2>2. StartsWell(call)
      BY <2>1 DEF AskMovement
    <2> QED BY <2>1, <2>2 DEF AskMovement
  <1>3. CASE StartGateEvent(r)
    <2>1. PICK u \in User, m \in Movement, d \in Direction :
            /\ Serve(r, [Call("start", "readAuthorisation", u) EXCEPT !.movement = m, !.arg = d])
            /\ UNCHANGED rows
            /\ \A e \in Event : Open(e) => event[e].movement # m
      BY <1>3 DEF StartGateEvent
    <2> DEFINE call == [Call("start", "readAuthorisation", u) EXCEPT !.movement = m, !.arg = d]
    <2>2. StartsWell(call)
      BY <2>1
    <2> QED BY <2>1, <2>2
  <1>4. CASE \/ MoveToIdentityPending(r) \/ BeginVehicleChecks(r) \/ EscalateException(r)
             \/ DenyGateEvent(r) \/ CancelGateEvent(r)
    <2>1. PICK op \in {"identityPending", "beginChecks", "escalate", "deny", "cancel"},
               to \in {"IDENTITY_PENDING", "VEHICLE_CHECKS_IN_PROGRESS", "SUPERVISOR_REVIEW",
                      "DENIED", "CANCELLED"} :
            AskTransition(r, op, to)
      BY <1>4 DEF MoveToIdentityPending, BeginVehicleChecks, EscalateException, DenyGateEvent,
                  CancelGateEvent
    <2>2. PICK u \in User, e \in Event :
            /\ Serve(r, [Call(op, "writeEvent", u) EXCEPT !.event = e, !.to = to])
            /\ UNCHANGED rows
            /\ <<event[e].status, to>> \in GateEventTransitions
      BY <2>1 DEF AskTransition
    <2> DEFINE call == [Call(op, "writeEvent", u) EXCEPT !.event = e, !.to = to]
    <2>3. StartsWell(call)
      BY <2>2
    <2> QED BY <2>2, <2>3
  <1>5. CASE ClearGateEvent(r)
    <2>1. PICK u \in User, e \in Event :
            /\ Serve(r, [Call("clear", "checkEvent", u) EXCEPT !.event = e, !.to = "CLEARED"])
            /\ UNCHANGED rows
            /\ "vehicle" \in available[event[e].movement]
      BY <1>5 DEF ClearGateEvent
    <2> DEFINE call == [Call("clear", "checkEvent", u) EXCEPT !.event = e, !.to = "CLEARED"]
    <2>2. StartsWell(call)
      BY <2>1
    <2> QED BY <2>1, <2>2
  <1>6. CASE CompleteGateEvent(r)
    <2>1. PICK u \in User, e \in Event :
            /\ Serve(r, [Call("complete", "checkEvent", u) EXCEPT
                           !.event = e, !.to = "COMPLETED", !.seen = event[e].decision])
            /\ UNCHANGED rows
      BY <1>6 DEF CompleteGateEvent
    <2>2. PICK decision : decision = event[e].decision
      OBVIOUS
    <2> DEFINE call == [Call("complete", "checkEvent", u) EXCEPT
                          !.event = e, !.to = "COMPLETED", !.seen = decision]
    <2>3. StartsWell(call)
      BY <2>2
    <2> QED BY <2>1, <2>2, <2>3
  <1>7. CASE VerifyIdentity(r)
    <2>1. PICK u \in User, e \in Event, outcome \in Verdict :
            /\ Serve(r, [Call("verify", "recordIdentity", u) EXCEPT !.event = e, !.arg = outcome])
            /\ UNCHANGED rows
            /\ PendingIdentity(e)
      BY <1>7 DEF VerifyIdentity, Verdict
    <2> DEFINE call == [Call("verify", "recordIdentity", u) EXCEPT !.event = e, !.arg = outcome]
    <2>2. StartsWell(call)
      BY <2>1
    <2> QED BY <2>1, <2>2
  <1>8. CASE RunOnDeviceVerification(r) \/ RunSyntheticVerification(r)
    <2>1. PICK op \in {"onDevice", "synthetic"} : AttemptVerification(r, op)
      BY <1>8 DEF RunOnDeviceVerification, RunSyntheticVerification
    <2>2. PICK u \in User, e \in Event, k \in Attempt, outcome \in Verdict :
            /\ Serve(r, [Call(op, "readPending", u) EXCEPT !.event = e, !.row = k,
                                                           !.arg = outcome])
            /\ UNCHANGED rows
      BY <2>1 DEF AttemptVerification, Verdict
    <2> DEFINE call == [Call(op, "readPending", u) EXCEPT !.event = e, !.row = k,
                                                         !.arg = outcome]
    <2>3. StartsWell(call)
      BY <2>1
    <2> QED BY <2>2, <2>3
  <1>9. CASE RequestManualFallback(r)
    <2>1. PICK u \in User, e \in Event :
            /\ Serve(r, [Call("requestFallback", "findFallback", u) EXCEPT !.event = e])
            /\ UNCHANGED rows
      BY <1>9 DEF RequestManualFallback
    <2> DEFINE call == [Call("requestFallback", "findFallback", u) EXCEPT !.event = e]
    <2>2. StartsWell(call)
      BY <2>1
    <2> QED BY <2>1, <2>2
  <1>10. CASE ResolveManualFallback(r)
    <2>1. PICK u \in User, f \in Fallback, decision \in {"APPROVED", "DENIED"} :
            /\ Serve(r, [Call("resolveFallback", "writeFallback", u) EXCEPT !.row = f, !.to = decision])
            /\ UNCHANGED rows
      BY <1>10 DEF ResolveManualFallback
    <2> DEFINE call == [Call("resolveFallback", "writeFallback", u) EXCEPT !.row = f, !.to = decision]
    <2>2. StartsWell(call)
      BY <2>1
    <2> QED BY <2>1, <2>2
  <1>11. CASE MarkVerifiedManually(r)
    <2>1. PICK u \in User, e \in Event, f \in Fallback :
            /\ Serve(r, [Call("manual", "readFallback", u) EXCEPT !.event = e, !.row = f, !.arg = "MANUAL_FALLBACK_APPROVED"])
            /\ UNCHANGED rows
            /\ PendingIdentity(e)
      BY <1>11 DEF MarkVerifiedManually
    <2> DEFINE call == [Call("manual", "readFallback", u) EXCEPT !.event = e, !.row = f, !.arg = "MANUAL_FALLBACK_APPROVED"]
    <2>2. StartsWell(call)
      BY <2>1
    <2> QED BY <2>1, <2>2
  <1>12. CASE RecordInspectionResult(r)
    <2>1. PICK u \in User, e \in Event, outcome \in Outcome :
            /\ Serve(r, [Call("inspect", "writeItem", u) EXCEPT !.event = e, !.arg = outcome])
            /\ UNCHANGED rows
            /\ event[e].status = "VEHICLE_CHECKS_IN_PROGRESS"
      BY <1>12 DEF RecordInspectionResult
    <2> DEFINE call == [Call("inspect", "writeItem", u) EXCEPT !.event = e, !.arg = outcome]
    <2>2. StartsWell(call)
      BY <2>1
    <2> QED BY <2>1, <2>2
  <1>13. CASE RaiseException(r)
    <2>1. PICK u \in User, e \in Event, severity \in {"FAIL_MINOR", "FAIL_SERIOUS"} :
            /\ Serve(r, [Call("raise", "insertException", u) EXCEPT
                           !.event = e, !.arg = severity, !.seen = event[e].status])
            /\ UNCHANGED rows
      BY <1>13 DEF RaiseException
    <2>2. PICK status : status = event[e].status
      OBVIOUS
    <2> DEFINE call == [Call("raise", "insertException", u) EXCEPT
                          !.event = e, !.arg = severity, !.seen = status]
    <2>3. StartsWell(call)
      OBVIOUS
    <2> QED BY <2>1, <2>2, <2>3
  <1>14. CASE ResolveException(r)
    <2>1. PICK u \in User, x \in Exception, outcome \in ContinueOutcome \cup BlockOutcome :
            /\ Serve(r, [Call("resolve", "writeResolution", u) EXCEPT
                           !.event = exception[x].event, !.row = x, !.arg = outcome])
            /\ UNCHANGED rows
            /\ Waits(x)
      BY <1>14 DEF ResolveException, MayResolve, Waits
    <2>2. PICK e : e = exception[x].event
      OBVIOUS
    <2> DEFINE call == [Call("resolve", "writeResolution", u) EXCEPT
                          !.event = e, !.row = x, !.arg = outcome]
    <2>3. StartsWell(call)
      BY <2>1
    <2> QED BY <2>1, <2>2, <2>3
  <1>15. CASE ReconcileMovement(r)
    <2>1. PICK u \in User, m \in Movement :
            /\ Serve(r, [Call("reconcile", "findPair", u) EXCEPT !.movement = m])
            /\ UNCHANGED rows
      BY <1>15 DEF ReconcileMovement
    <2> DEFINE call == [Call("reconcile", "findPair", u) EXCEPT !.movement = m]
    <2>2. StartsWell(call)
      BY <2>1
    <2> QED BY <2>1, <2>2
  <1>16. CASE ReconcilePair(r)
    <2>1. PICK u \in User, d, t \in Event :
            /\ Serve(r, [Call("reconcilePair", "insertPair", u) EXCEPT
                           !.movement = event[d].movement, !.event = d, !.row = t])
            /\ UNCHANGED rows
      BY <1>16 DEF ReconcilePair
    <2>2. PICK m : m = event[d].movement
      OBVIOUS
    <2> DEFINE call == [Call("reconcilePair", "insertPair", u) EXCEPT
                          !.movement = m, !.event = d, !.row = t]
    <2>3. StartsWell(call)
      OBVIOUS
    <2> QED BY <2>1, <2>2, <2>3
  <1> QED BY <1>1, <1>2, <1>3, <1>4, <1>5, <1>6, <1>7, <1>8, <1>9, <1>10, <1>11, <1>12, <1>13, <1>14, <1>15, <1>16 DEF Asks

\* A request that has ended relies on nothing.
LEMMA IdleTimely == Timely(Idle) /\ Timely(Idle)'
  BY DEF Timely, TimelyVisit, TimelyMove, TimelyMovement, Idle

\* A statement that only reads hands on what it and the ones before have found; only the
\* count leads to the insert of an attempt, only the two reads of a movement to its update,
\* and an exception is not forgotten.
Reading(r, q, c) ==
  /\ request' = [request EXCEPT ![r] = c]
  /\ c.at = "insertAttempt" => CountAttempts(r)
  /\ c.at \notin {"writeItem", "writeResolution", "readMovement"}
  /\ c.at = "checkMovement" => ReadMovement(r) /\ c.to = q.to
  /\ c.at = "writeMovement" => StartOrCompleteMovement(r) /\ c.to = q.to
  /\ Timely(q) => Timely(c)
  /\ \A e \in Event : RaisesSoon(q, e) => RaisesSoon(c, e)

LEMMA Read ==
  ASSUME Inductive, NEW r \in Request, Reads(r), NEW q, q = request[r], NEW c, c = request'[r]
  PROVE  q.at # "idle" /\ UNCHANGED rows /\ Reading(r, q, c)
  <1>0. q \in RequestRow /\ WellFormed(q) /\ TypeOK
    BY InFlight DEF Inductive
  <1> USE <1>0, IdleTimely DEF Reading, RaisesSoon, RequestRow
  <1>1. CASE StartOrCompleteMovement(r)
    <2>1. /\ q.at = "checkMovement" /\ UNCHANGED rows
          /\ request' = [request EXCEPT ![r] = c]
          /\ \/ c = [q EXCEPT !.at = "writeMovement"] /\ <<movement[q.movement].status, q.to>> \in MovementTransitions
             \/ c = Idle
      BY <1>1 DEF StartOrCompleteMovement, Continue, TypeOK
    <2>2. Timely(q) /\ <<movement[q.movement].status, q.to>> \in MovementTransitions
            => Timely([q EXCEPT !.at = "writeMovement"])
      BY <2>1 DEF Timely, TimelyVisit, TimelyMove, TimelyMovement
    <2> QED BY <1>1, <2>1, <2>2 DEF Idle
  <1>2. CASE ReadAuthorisation(r)
    <2>1. /\ q.at = "readAuthorisation" /\ UNCHANGED rows
          /\ request' = [request EXCEPT ![r] = c]
          /\ \/ c = [q EXCEPT !.at = "readFleet"] /\ movement[q.movement].status = "APPROVED"
             \/ c = Idle
      BY <1>2 DEF ReadAuthorisation, Continue, TypeOK
    <2>2. Timely(q) /\ movement[q.movement].status = "APPROVED"
            => Timely([q EXCEPT !.at = "readFleet"])
      BY <2>1 DEF Timely, TimelyVisit, TimelyMove, TimelyMovement
    <2> QED BY <2>1, <2>2 DEF Idle
  <1>3. CASE ReadFleet(r)
    <2>1. /\ q.at = "readFleet" /\ UNCHANGED rows
          /\ request' = [request EXCEPT ![r] = c]
          /\ \/ c = [q EXCEPT !.at = "insertEvent"]
             \/ c = Idle
      BY <1>3 DEF ReadFleet, Continue, TypeOK
    <2>2. Timely(q) => Timely([q EXCEPT !.at = "insertEvent"])
      BY <2>1 DEF Timely, TimelyVisit, TimelyMove, TimelyMovement
    <2> QED BY <2>1, <2>2 DEF Idle
  <1>4. CASE CheckTransition(r)
    <2>1. /\ q.at = "checkEvent" /\ UNCHANGED rows
          /\ request' = [request EXCEPT ![r] = c]
          /\ \/ c = [q EXCEPT !.at = "writeEvent"] /\ <<event[q.event].status, q.to>> \in GateEventTransitions
             \/ c = Idle
      BY <1>4 DEF CheckTransition, Continue, TypeOK
    <2>2. Timely(q) /\ <<event[q.event].status, q.to>> \in GateEventTransitions
            => Timely([q EXCEPT !.at = "writeEvent"])
      BY <2>1 DEF Timely, TimelyVisit, TimelyMove, TimelyMovement
    <2> QED BY <2>1, <2>2 DEF Idle
  <1>5. CASE ReadMovement(r)
    <2>1. /\ q.at = "readMovement" /\ UNCHANGED rows
          /\ request' = [request EXCEPT ![r] = c]
          /\ \/ /\ c = [q EXCEPT !.at = "checkMovement"]
                /\ q.op = "complete" => movement[q.movement].status = "IN_PROGRESS"
             \/ c = [q EXCEPT !.at = "findPair"]
             \/ c = Idle
      BY <1>5 DEF ReadMovement, TypeOK
    <2>2. (Timely(q) /\ (q.op = "complete" => movement[q.movement].status = "IN_PROGRESS"))
            => Timely([q EXCEPT !.at = "checkMovement"])
      BY <2>1 DEF Timely, TimelyVisit, TimelyMove, TimelyMovement
    <2>3. Timely([q EXCEPT !.at = "findPair"])
      BY <2>1 DEF Timely, TimelyVisit, TimelyMove, TimelyMovement
    <2> QED BY <1>5, <2>1, <2>2, <2>3 DEF Idle
  <1>6. CASE ReadPending(r)
    <2>1. /\ q.at = "readPending" /\ UNCHANGED rows
          /\ request' = [request EXCEPT ![r] = c]
          /\ \/ c = [q EXCEPT !.at = "countAttempts"] /\ PendingIdentity(q.event)
             \/ c = Idle
      BY <1>6 DEF ReadPending, Continue, TypeOK
    <2>2. Timely(q) /\ PendingIdentity(q.event) => Timely([q EXCEPT !.at = "countAttempts"])
      BY <2>1 DEF Timely, TimelyVisit, TimelyMove, TimelyMovement
    <2> QED BY <2>1, <2>2 DEF Idle
  <1>7. CASE CountAttempts(r)
    <2>1. /\ q.at = "countAttempts" /\ UNCHANGED rows
          /\ request' = [request EXCEPT ![r] = c]
          /\ \/ c = [q EXCEPT !.at = "insertAttempt"]
             \/ c = Idle
      BY <1>7 DEF CountAttempts, Continue, TypeOK
    <2>2. Timely(q) => Timely([q EXCEPT !.at = "insertAttempt"])
      BY <2>1 DEF Timely, TimelyVisit, TimelyMove, TimelyMovement
    <2> QED BY <1>7, <2>1, <2>2 DEF Idle
  <1>8. CASE FindFallback(r)
    <2>1. /\ q.at = "findFallback" /\ UNCHANGED rows
          /\ request' = [request EXCEPT ![r] = c]
          /\ \/ c = [q EXCEPT !.at = "insertFallback"]
             \/ c = Idle
      BY <1>8 DEF FindFallback, Continue, TypeOK
    <2>2. Timely(q) => Timely([q EXCEPT !.at = "insertFallback"])
      BY <2>1 DEF Timely, TimelyVisit, TimelyMove, TimelyMovement
    <2> QED BY <2>1, <2>2 DEF Idle
  <1>9. CASE ReadFallback(r)
    <2>1. /\ q.at = "readFallback" /\ UNCHANGED rows
          /\ request' = [request EXCEPT ![r] = c]
          /\ \/ c = [q EXCEPT !.at = "recordIdentity"]
             \/ c = Idle
      BY <1>9 DEF ReadFallback, Continue, TypeOK
    <2>2. Timely(q) => Timely([q EXCEPT !.at = "recordIdentity"])
      BY <2>1 DEF Timely, TimelyVisit, TimelyMove, TimelyMovement
    <2> QED BY <2>1, <2>2 DEF Idle
  <1>10. CASE ReadRaisingEvent(r)
    <2>1. PICK status : status = event[q.event].status
      OBVIOUS
    <2>2. /\ q.at = "readEvent" /\ UNCHANGED rows
          /\ request' = [request EXCEPT ![r] = c]
          /\ c = [q EXCEPT !.at = "insertException", !.seen = status]
      BY <1>10, <2>1 DEF ReadRaisingEvent, TypeOK
    <2>3. Timely(q) => Timely([q EXCEPT !.at = "insertException", !.seen = status])
      BY <2>2 DEF Timely, TimelyVisit, TimelyMove, TimelyMovement
    <2> QED BY <2>2, <2>3
  <1>11. CASE FindPair(r)
    <2>1. q.at = "findPair" /\ UNCHANGED rows
      BY <1>11 DEF FindPair
    <2>2. CASE request' = [request EXCEPT ![r] = Idle]
      <3>1. c = Idle
        BY <2>2 DEF TypeOK
      <3>2. Timely(q) => Timely(c)
        BY <3>1
      <3>3. c.at = "idle"
        BY <3>1 DEF Idle
      <3> QED BY <2>1, <2>2, <3>1, <3>2, <3>3
    <2>3. ASSUME NEW d \in Event, NEW t \in Event,
                 request' = [request EXCEPT ![r] =
                   [q EXCEPT !.at = "insertPair", !.event = d, !.row = t]]
          PROVE  Reading(r, q, c)
      <3>1. c = [q EXCEPT !.at = "insertPair", !.event = d, !.row = t]
        BY <2>3 DEF TypeOK
      <3>2. Timely(c)
        BY <3>1 DEF Timely, TimelyVisit, TimelyMove, TimelyMovement
      <3>3. c.at = "insertPair"
        BY <3>1
      <3> QED BY <2>1, <2>3, <3>1, <3>2, <3>3
    <2>4. \/ request' = [request EXCEPT ![r] = Idle]
          \/ \E d, t \in Event : request' = [request EXCEPT ![r] =
               [q EXCEPT !.at = "insertPair", !.event = d, !.row = t]]
      BY <1>11 DEF FindPair, Finish, TypeOK
    <2> QED BY <2>1, <2>2, <2>3, <2>4
  <1> QED BY <1>1, <1>2, <1>3, <1>4, <1>5, <1>6, <1>7, <1>8, <1>9, <1>10, <1>11 DEF Reads

\* A write goes on with its request, and no write leads to the insert of an attempt; only a
\* gate event's update leads to its movement.
LEMMA Wrote ==
  ASSUME Inductive, NEW r \in Request, Writes(r), NEW q, q = request[r], NEW c, c = request'[r]
  PROVE  /\ q.at # "idle"
         /\ request' = [request EXCEPT ![r] = c]
         /\ c.at \notin {"insertAttempt", "writeItem", "writeResolution", "checkMovement",
                         "writeMovement"}
         /\ c.at = "readMovement" => WriteTransition(r)
         /\ InsertAttempt(r) \/ UNCHANGED attempt
  <1>0. q \in RequestRow /\ TypeOK
    BY InFlight DEF Inductive
  <1> USE <1>0 DEF Idle, TypeOK, RequestRow, Continue, Finish
  <1>1. CASE InsertMovement(r) \/ WriteMovement(r) \/ InsertFallback(r) \/ WriteFallback(r)
    BY <1>1 DEF InsertMovement, WriteMovement, InsertFallback, WriteFallback, others
  <1>2. CASE InsertGateEvent(r)
    <2>1. q.at = "insertEvent" /\ UNCHANGED attempt
      BY <1>2 DEF InsertGateEvent
    <2>2. CASE request' = [request EXCEPT ![r] = Idle]
      BY <2>1, <2>2
    <2>3. ASSUME NEW e \in Event,
                 request' = [request EXCEPT ![r] =
                   [q EXCEPT !.at = "checkEvent", !.event = e, !.to = "INSPECTION_STARTED"]]
          PROVE  /\ request' = [request EXCEPT ![r] = c]
                 /\ c.at = "checkEvent"
      BY <2>3
    <2> QED BY <1>2, <2>1, <2>2, <2>3 DEF InsertGateEvent
  <1>3. CASE WriteTransition(r)
    <2>1. q.at = "writeEvent" /\ UNCHANGED attempt
      BY <1>3 DEF WriteTransition
    <2>2. PICK m, to : m = event[q.event].movement
                       /\ to = IF Enters(q) THEN "IN_PROGRESS" ELSE "COMPLETED"
      OBVIOUS
    <2>3. CASE Enters(q) \/ Leaves(q)
      <3>1. request' = [request EXCEPT ![r] =
                          [q EXCEPT !.at = "readMovement", !.movement = m, !.to = to]]
        BY <1>3, <2>2, <2>3 DEF WriteTransition
      <3>2. c = [q EXCEPT !.at = "readMovement", !.movement = m, !.to = to]
        BY <3>1
      <3>3. c.at = "readMovement"
        BY <3>2
      <3> QED BY <1>3, <2>1, <3>1, <3>2, <3>3
    <2>4. CASE ~(Enters(q) \/ Leaves(q)) /\ Pairs(q)
      <3>1. request' = [request EXCEPT ![r] = [q EXCEPT !.at = "findPair", !.movement = m]]
        BY <1>3, <2>2, <2>4 DEF WriteTransition
      <3> QED BY <2>1, <3>1
    <2>5. CASE ~(Enters(q) \/ Leaves(q)) /\ ~Pairs(q)
      <3>1. request' = [request EXCEPT ![r] = Idle]
        BY <1>3, <2>5 DEF WriteTransition
      <3> QED BY <2>1, <3>1
    <2> QED BY <2>3, <2>4, <2>5
  <1>4. CASE InsertAttempt(r)
    <2>1. q.at = "insertAttempt" /\ Continue(r, attempt[q.row] = NoAttempt, "recordIdentity")
      BY <1>4 DEF InsertAttempt
    <2> QED BY <1>4, <2>1
  <1>8. CASE RecordIdentity(r)
    <2>1. /\ q.at = "recordIdentity" /\ UNCHANGED attempt
          /\ \/ request' = [request EXCEPT ![r] = Idle]
             \/ request' = [request EXCEPT ![r] =
                              [q EXCEPT !.at = "checkEvent", !.to = "IDENTITY_VERIFIED"]]
      BY <1>8 DEF RecordIdentity
    <2>2. CASE request' = [request EXCEPT ![r] = Idle]
      BY <2>1, <2>2
    <2>3. CASE request' = [request EXCEPT ![r] =
                             [q EXCEPT !.at = "checkEvent", !.to = "IDENTITY_VERIFIED"]]
      BY <2>1, <2>3
    <2> QED BY <2>1, <2>2, <2>3
  <1>10. CASE WriteItem(r)
    <2>1. /\ q.at = "writeItem" /\ UNCHANGED attempt
          /\ Continue(r, q.arg # "PASS", "readEvent")
      BY <1>10 DEF WriteItem
    <2> QED BY <2>1
  <1>5. CASE InsertException(r)
    BY <1>5 DEF InsertException
  <1>6. CASE WriteResolution(r)
    BY <1>6 DEF WriteResolution
  <1>7. CASE InsertPair(r)
    BY <1>7 DEF InsertPair
  <1>9. CASE RaiseDiscrepancy(r)
    <2>1. /\ q.at = "raiseDiscrepancy" /\ UNCHANGED attempt
          /\ \E more \in BOOLEAN :
               Continue(r, more, "raiseDiscrepancy") \/ request' = [request EXCEPT ![r] = Idle]
      BY <1>9 DEF RaiseDiscrepancy
    <2> QED BY <2>1
  <1> QED BY <1>1, <1>2, <1>3, <1>4, <1>5, <1>6, <1>7, <1>8, <1>9, <1>10 DEF Writes

\* An exception stays on its event, and is not taken for one from an item or the reverse.
ExceptionsStay ==
  \A x \in Exception : exception[x] # NoException =>
    /\ exception'[x] # NoException
    /\ exception'[x].event = exception[x].event
    /\ exception'[x].item = exception[x].item

LEMMA ExceptionsKept ==
  ASSUME Inductive, NEW r \in Request, Writes(r)
  PROVE  ExceptionsStay
  <1> USE DEF ExceptionsStay, Inductive, TypeOK, RowsTypeOK, ExceptionRow
  <1>1. CASE UNCHANGED exception
    BY <1>1
  <1>2. ASSUME NEW x \in Exception, exception[x] = NoException, NEW row,
               exception' = [exception EXCEPT ![x] = row]
        PROVE  ExceptionsStay
    BY <1>2
  <1>3. CASE InsertException(r)
    BY <1>1, <1>2, <1>3 DEF InsertException
  <1>4. CASE RaiseDiscrepancy(r)
    BY <1>1, <1>2, <1>4 DEF RaiseDiscrepancy
  <1>5. CASE WriteResolution(r)
    <2>1. PICK q : q = request[r]
      OBVIOUS
    <2>2. /\ exception[q.row].event # None
          /\ exception' = [exception EXCEPT ![q.row] =
               [exception[q.row] EXCEPT !.resolvedBy = q.user, !.outcome = q.arg]]
          /\ q.row \in Exception
      BY <1>5, <2>1, InFlight DEF WriteResolution, Sound, WellFormed
    <2> QED BY <2>2 DEF NoException
  <1> QED BY <1>1, <1>3, <1>4, <1>5 DEF Writes, InsertMovement, WriteMovement,
             InsertGateEvent, WriteTransition, InsertAttempt, RecordIdentity, InsertFallback,
             WriteFallback, WriteItem, InsertPair, others

\* Only the inspection writes an item.
LEMMA ItemsKept ==
  ASSUME Inductive, NEW r \in Request, Writes(r), ~WriteItem(r), NEW e \in Event
  PROVE  event'[e].item = event[e].item
  <1> USE DEF Inductive, TypeOK, RowsTypeOK, EventRow
  <1>1. PICK q : q = request[r]
    OBVIOUS
  <1>2. CASE InsertGateEvent(r)
    <2>1. CASE UNCHANGED event
      BY <2>1
    <2>2. ASSUME NEW d \in Event, ~Exists(d), NEW row, row.item = "NONE",
                 event' = [event EXCEPT ![d] = row]
          PROVE  event'[e].item = event[e].item
      BY <2>2 DEF Exists, NoEvent
    <2> QED BY <1>2, <2>1, <2>2 DEF InsertGateEvent, NoEvent
  <1>3. CASE WriteTransition(r)
    <2>1. PICK decision :
            event' = [event EXCEPT ![q.event] =
                        [event[q.event] EXCEPT !.status = q.to, !.decision = decision]]
      BY <1>1, <1>3 DEF WriteTransition
    <2> QED BY <2>1
  <1>4. CASE RecordIdentity(r)
    BY <1>1, <1>4 DEF RecordIdentity
  <1> QED BY <1>2, <1>3, <1>4 DEF Writes, InsertMovement, WriteMovement,
             InsertAttempt, InsertFallback, WriteFallback, InsertException, WriteResolution,
             InsertPair, RaiseDiscrepancy, others

\* A request that dies was in flight and is gone.
LEMMA Died ==
  ASSUME Inductive, NEW r \in Request, Crash(r)
  PROVE  /\ request[r] # Idle
         /\ UNCHANGED rows
         /\ request' = [request EXCEPT ![r] = Idle]
         /\ request'[r] = Idle
  BY DEF Crash, Finish, Inductive, TypeOK

-------------------------------------------------------------------------------
(* The rate limit.                                                         *)

OthersIdle(r) == \A s \in Request \ {r} : request[s] = Idle

\* Served one at a time, the request that makes a step is alone.
LEMMA StepsAlone ==
  ASSUME Inductive, Alone, Serial, NEW r \in Request, Asks(r) \/ Reads(r) \/ Writes(r) \/ Crash(r)
  PROVE  OthersIdle(r)
  <1>1. CASE Asks(r)
    BY <1>1, Asked DEF Quiescent, OthersIdle
  <1>2. CASE Reads(r)
    BY <1>2, Read DEF Alone, OthersIdle, Idle
  <1>3. CASE Writes(r)
    BY <1>3, Wrote DEF Alone, OthersIdle, Idle
  <1>4. CASE Crash(r)
    BY <1>4, Died DEF Alone, OthersIdle
  <1> QED BY <1>1, <1>2, <1>3, <1>4

\* A statement changes its own request only.
LEMMA StepsOwn ==
  ASSUME Inductive, NEW r \in Request, Asks(r) \/ Reads(r) \/ Writes(r) \/ Crash(r)
  PROVE  request' = [request EXCEPT ![r] = request'[r]]
  BY Asked, Read, Wrote, Died DEF Reading

\* Changes from outside leave the requests alone.
LEMMA Outside ==
  ASSUME (\E m \in Movement : ChangeAvailability(m)) \/ (\E k \in Attempt : WindowPasses(k))
  PROVE  UNCHANGED <<movement, event, earlier, exception, fallback, reconciliation, request>>
  BY DEF ChangeAvailability, WindowPasses, others

LEMMA AloneKept ==
  ASSUME Serial, Inductive, Alone, [Next]_vars
  PROVE  Alone'
  <1>1. CASE UNCHANGED request
    BY <1>1 DEF Alone
  <1>2. ASSUME NEW r \in Request, Asks(r) \/ Reads(r) \/ Writes(r) \/ Crash(r)
        PROVE  Alone'
    <2>1. OthersIdle(r) /\ request' = [request EXCEPT ![r] = request'[r]]
      BY <1>2, StepsAlone, StepsOwn
    <2> QED BY <2>1 DEF OthersIdle, Alone, Inductive, TypeOK
  <1> QED BY <1>1, <1>2, Statements, Outside DEF vars

\* With Serial, at most one request is past its first statement at any time.
THEOREM ServedAlone == Serial => (Spec => []Alone)
  <1> SUFFICES ASSUME Serial PROVE Spec => []Alone
    OBVIOUS
  <1>1. Init => Alone
    BY DEF Init, Alone
  <1>2. Inductive /\ Alone /\ [Next]_vars => Alone'
    BY AloneKept
  <1> QED BY <1>1, <1>2, AlwaysInductive, PTL DEF Spec

\* One attempt fewer, or no more than before, is still counted.
Counted(e) ==
  /\ IsFiniteSet(RecentAttempts(e)) /\ IsFiniteSet(Inserting(e))
  /\ Cardinality(RecentAttempts(e)) + Cardinality(Inserting(e))
       < RateLimit + (IF Serial THEN 1 ELSE Cardinality(Request))

LEMMA CountedStill ==
  ASSUME IsFiniteSet(Request), NEW e, Counted(e),
         RecentAttempts(e)' \subseteq RecentAttempts(e), Inserting(e)' \subseteq Inserting(e)
  PROVE  Counted(e)'
  <1>1. IsFiniteSet(RecentAttempts(e)') /\ IsFiniteSet(Inserting(e)')
    BY FS_Subset DEF Counted
  <1>2. /\ Cardinality(RecentAttempts(e)') <= Cardinality(RecentAttempts(e))
        /\ Cardinality(Inserting(e)') <= Cardinality(Inserting(e))
    BY FS_Subset DEF Counted
  <1>3. /\ Cardinality(RecentAttempts(e)') \in Nat /\ Cardinality(RecentAttempts(e)) \in Nat
        /\ Cardinality(Inserting(e)') \in Nat /\ Cardinality(Inserting(e)) \in Nat
        /\ Cardinality(Request) \in Nat
    BY <1>1, FS_CardinalityType DEF Counted
  <1>4. RateLimit \in Nat
    BY RateAssumption
  <1> QED BY <1>1, <1>2, <1>3, <1>4 DEF Counted

\* The count itself: below the limit, one more request is about to insert.
LEMMA CountedNow ==
  ASSUME Inductive, Serial => Alone, IsFiniteSet(Request), NEW r \in Request, CountAttempts(r),
         NEW e \in Event, Counted(e)
  PROVE  Counted(e)'
  <1>1. PICK q : q = request[r]
    OBVIOUS
  <1>2. PICK c : c = request'[r]
    OBVIOUS
  <1>3. q \in RequestRow /\ q.at = "countAttempts"
    BY <1>1, InFlight DEF CountAttempts
  <1>4. UNCHANGED attempt /\ request' = [request EXCEPT ![r] = c]
    BY <1>1, <1>2, Read DEF Reads, Reading, rows
  <1>5. RecentAttempts(e)' = RecentAttempts(e)
    BY <1>4 DEF RecentAttempts
  <1>6. CASE c.at = "insertAttempt" /\ c.event = e
    <2>1. Cardinality(RecentAttempts(e)) < RateLimit
      BY <1>1, <1>2, <1>3, <1>6 DEF CountAttempts, Continue, Idle, RequestRow, Inductive, TypeOK
    <2>2. Inserting(e)' \in SUBSET Request
      BY DEF Inserting
    <2>3. IsFiniteSet(Inserting(e)') /\ Cardinality(Inserting(e)') <= Cardinality(Request)
      BY <2>2, FS_Subset
    <2>4. ASSUME Serial PROVE Cardinality(Inserting(e)') <= 1
      <3>1. \A s \in Request \ {r} : request[s] = Idle
        BY <1>1, <1>3, <2>4 DEF Alone, Idle
      <3>2. \A s \in Request \ {r} : request'[s].at # "insertAttempt"
        BY <1>4, <3>1 DEF Idle, Inductive, TypeOK
      <3>3. Inserting(e)' \in SUBSET {r}
        BY <3>2 DEF Inserting
      <3>4. IsFiniteSet({r}) /\ Cardinality({r}) = 1
        BY FS_Singleton
      <3>5. Cardinality(Inserting(e)') <= Cardinality({r})
        BY <3>3, <3>4, FS_Subset
      <3> QED BY <3>4, <3>5
    <2>5. /\ Cardinality(RecentAttempts(e)) \in Nat /\ Cardinality(Inserting(e)') \in Nat
          /\ Cardinality(Request) \in Nat /\ RateLimit \in Nat
      BY <2>3, FS_CardinalityType, RateAssumption DEF Counted
    <2> QED BY <1>5, <2>1, <2>3, <2>4, <2>5 DEF Counted
  <1>7. CASE ~(c.at = "insertAttempt" /\ c.event = e)
    <2>1. Inserting(e)' \subseteq Inserting(e)
      BY <1>2, <1>4, <1>7 DEF Inserting, Inductive, TypeOK
    <2> QED BY <1>5, <2>1, CountedStill
  <1> QED BY <1>6, <1>7

\* The insert: one recent attempt more, and one request fewer about to make one.
LEMMA CountedAfter ==
  ASSUME Inductive, IsFiniteSet(Request), NEW r \in Request, InsertAttempt(r),
         NEW e \in Event, Counted(e)
  PROVE  Counted(e)'
  <1>1. PICK q : q = request[r]
    OBVIOUS
  <1>2. PICK c : c = request'[r]
    OBVIOUS
  <1>3. q \in RequestRow /\ q.at = "insertAttempt"
    BY <1>1, InFlight DEF InsertAttempt
  <1>4. request' = [request EXCEPT ![r] = c] /\ c.at # "insertAttempt"
    BY <1>1, <1>2, Wrote DEF Writes
  <1>5. attempt' = [attempt EXCEPT ![q.row] =
          IF attempt[q.row] = NoAttempt THEN [event |-> q.event, recent |-> TRUE] ELSE attempt[q.row]]
    BY <1>1 DEF InsertAttempt
  <1>6. Inserting(e)' \subseteq Inserting(e)
    BY <1>2, <1>4 DEF Inserting, Inductive, TypeOK
  <1>7. CASE q.event = e
    <2>1. Inserting(e)' \in SUBSET (Inserting(e) \ {r})
      BY <1>2, <1>4 DEF Inserting, Inductive, TypeOK
    <2>2. r \in Inserting(e)
      BY <1>1, <1>3, <1>7 DEF Inserting
    <2>3. RecentAttempts(e)' \in SUBSET (RecentAttempts(e) \cup {q.row})
      BY <1>5 DEF RecentAttempts, Inductive, TypeOK, RowsTypeOK
    <2>4. /\ IsFiniteSet(Inserting(e) \ {r})
          /\ Cardinality(Inserting(e) \ {r}) = Cardinality(Inserting(e)) - 1
      BY <2>2, FS_RemoveElement DEF Counted
    <2>5. /\ IsFiniteSet(RecentAttempts(e) \cup {q.row})
          /\ Cardinality(RecentAttempts(e) \cup {q.row}) \in
               {Cardinality(RecentAttempts(e)), Cardinality(RecentAttempts(e)) + 1}
      BY FS_AddElement DEF Counted
    <2>6. /\ IsFiniteSet(Inserting(e)')
          /\ Cardinality(Inserting(e)') <= Cardinality(Inserting(e) \ {r})
      BY <2>1, <2>4, FS_Subset
    <2>7. /\ IsFiniteSet(RecentAttempts(e)')
          /\ Cardinality(RecentAttempts(e)') <= Cardinality(RecentAttempts(e) \cup {q.row})
      BY <2>3, <2>5, FS_Subset
    <2>8. /\ Cardinality(RecentAttempts(e)') \in Nat /\ Cardinality(RecentAttempts(e)) \in Nat
          /\ Cardinality(Inserting(e)') \in Nat /\ Cardinality(Inserting(e)) \in Nat
          /\ Cardinality(Request) \in Nat /\ RateLimit \in Nat
      BY <2>6, <2>7, FS_CardinalityType, RateAssumption DEF Counted
    <2> QED BY <2>4, <2>5, <2>6, <2>7, <2>8 DEF Counted
  <1>8. CASE q.event # e
    <2>1. RecentAttempts(e)' \subseteq RecentAttempts(e)
      BY <1>5, <1>8 DEF RecentAttempts, Inductive, TypeOK, RowsTypeOK
    <2> QED BY <1>6, <2>1, CountedStill
  <1> QED BY <1>7, <1>8

LEMMA NextCounted ==
  ASSUME Inductive, Serial => Alone, IsFiniteSet(Request), AttemptsCounted, [Next]_vars
  PROVE  AttemptsCounted'
  <1> SUFFICES ASSUME NEW e \in Event PROVE Counted(e)'
    BY DEF AttemptsCounted, Counted
  <1>0. Counted(e)
    BY DEF AttemptsCounted, Counted
  <1>1. CASE UNCHANGED <<attempt, request>>
    <2>1. RecentAttempts(e)' \subseteq RecentAttempts(e) /\ Inserting(e)' \subseteq Inserting(e)
      BY <1>1 DEF RecentAttempts, Inserting
    <2> QED BY <1>0, <2>1, CountedStill
  <1>2. ASSUME NEW k \in Attempt, WindowPasses(k) PROVE Counted(e)'
    <2>1. RecentAttempts(e)' \subseteq RecentAttempts(e) /\ Inserting(e)' \subseteq Inserting(e)
      BY <1>2 DEF WindowPasses, RecentAttempts, Inserting, Inductive, TypeOK, RowsTypeOK,
                  AttemptRow
    <2> QED BY <1>0, <2>1, CountedStill
  <1>3. ASSUME NEW r \in Request, Asks(r) \/ Reads(r) \/ Writes(r) \/ Crash(r)
        PROVE  Counted(e)'
    <2>1. CASE CountAttempts(r)
      BY <1>0, <2>1, CountedNow
    <2>2. CASE InsertAttempt(r)
      BY <1>0, <2>2, CountedAfter
    <2>3. CASE ~CountAttempts(r) /\ ~InsertAttempt(r)
      <3>1. PICK c : c = request'[r]
        OBVIOUS
      <3>2. c.at # "insertAttempt" /\ UNCHANGED attempt
        <4>1. CASE Asks(r)
          BY <3>1, <4>1, Asked DEF StartsWell, Later, rows
        <4>2. CASE Reads(r)
          BY <2>3, <3>1, <4>2, Read DEF Reading, rows
        <4>3. CASE Writes(r)
          BY <2>3, <3>1, <4>3, Wrote
        <4>4. CASE Crash(r)
          BY <3>1, <4>4, Died DEF Idle, rows
        <4> QED BY <1>3, <4>1, <4>2, <4>3, <4>4
      <3>3. request' = [request EXCEPT ![r] = c]
        BY <1>3, <3>1, StepsOwn
      <3>4. RecentAttempts(e)' \subseteq RecentAttempts(e) /\ Inserting(e)' \subseteq Inserting(e)
        BY <3>2, <3>3 DEF RecentAttempts, Inserting, Inductive, TypeOK
      <3> QED BY <1>0, <3>4, CountedStill
    <2> QED BY <2>1, <2>2, <2>3
  <1>4. ASSUME NEW m \in Movement, ChangeAvailability(m) PROVE UNCHANGED <<attempt, request>>
    BY <1>4 DEF ChangeAvailability, others
  <1> QED BY <1>1, <1>2, <1>3, <1>4, Statements DEF vars, rows

LEMMA NothingCounted ==
  ASSUME IsFiniteSet(Request), Request # {},
         \A k \in Attempt : attempt[k] = NoAttempt, Quiescent
  PROVE  AttemptsCounted
  <1> SUFFICES ASSUME NEW e \in Event PROVE Counted(e)
    BY DEF AttemptsCounted, Counted
  <1>1. RecentAttempts(e) = {} /\ Inserting(e) = {}
    BY DEF RecentAttempts, Inserting, NoAttempt, Quiescent, Idle
  <1>2. Cardinality(Request) \in Nat /\ Cardinality(Request) # 0 /\ RateLimit \in Nat
    BY FS_EmptySet, FS_CardinalityType, RateAssumption
  <1> QED BY <1>1, <1>2, FS_EmptySet DEF Counted

LEMMA CountedAreLimited ==
  ASSUME IsFiniteSet(Request), AttemptsCounted
  PROVE  AttemptsStayNearTheLimit
  <1> SUFFICES ASSUME NEW e \in Event
               PROVE  Cardinality(RecentAttempts(e))
                        < RateLimit + (IF Serial THEN 1 ELSE Cardinality(Request))
    BY DEF AttemptsStayNearTheLimit
  <1>1. /\ Cardinality(RecentAttempts(e)) \in Nat /\ Cardinality(Inserting(e)) \in Nat
        /\ Cardinality(Request) \in Nat /\ RateLimit \in Nat
    BY FS_CardinalityType, RateAssumption DEF AttemptsCounted
  <1> QED BY <1>1 DEF AttemptsCounted

\* The rate limit on verification attempts: the requests in flight can overshoot it by
\* one each, and by no more, whatever the interleaving of their counts and inserts.
THEOREM AttemptsAreLimited ==
  IsFiniteSet(Request) /\ Request # {} => (Spec => []AttemptsStayNearTheLimit)
  <1> SUFFICES ASSUME IsFiniteSet(Request), Request # {}
               PROVE  Spec => []AttemptsStayNearTheLimit
    OBVIOUS
  <1>1. Init => AttemptsCounted
    BY NothingCounted DEF Init, Quiescent
  <1>2. Inductive /\ (Serial => Alone) /\ AttemptsCounted /\ [Next]_vars => AttemptsCounted'
    BY NextCounted
  <1>3. AttemptsCounted => AttemptsStayNearTheLimit
    BY CountedAreLimited
  <1>4. CASE Serial
    BY <1>1, <1>2, <1>3, <1>4, AlwaysInductive, ServedAlone, PTL DEF Spec
  <1>5. CASE ~Serial
    BY <1>1, <1>2, <1>3, <1>5, AlwaysInductive, PTL DEF Spec
  <1> QED BY <1>4, <1>5

-------------------------------------------------------------------------------
(* Failed items.                                                           *)

\* An exception raised from an item of e stays, and so does a full table.
LEMMA RaisedStays ==
  ASSUME ExceptionsStay, NEW e \in Event, Raised(e)
  PROVE  Raised(e)'
  <1>1. CASE \E x \in Exception : exception[x].event = e /\ exception[x].item
    <2>1. PICK x \in Exception : exception[x].event = e /\ exception[x].item
      BY <1>1
    <2>2. exception[x] # NoException
      BY <2>1, NoneAssumption DEF NoException, Identifier
    <2> QED BY <2>1, <2>2 DEF ExceptionsStay, Raised
  <1>2. CASE \A x \in Exception : exception[x] # NoException
    BY <1>2 DEF ExceptionsStay, Raised
  <1> QED BY <1>1, <1>2 DEF Raised

\* The insert: the item has its exception, or there is no room for any.
LEMMA InsertRaises ==
  ASSUME Inductive, NEW r \in Request, InsertException(r), NEW e \in Event,
         RaisesSoon(request[r], e)
  PROVE  Raised(e)'
  <1>1. PICK q : q = request[r]
    OBVIOUS
  <1>2. q.op = "inspect" /\ q.event = e
    BY <1>1 DEF RaisesSoon
  <1>3. ASSUME NEW x \in Exception, exception' = [exception EXCEPT ![x] =
                 RaisedException(e, q.user, q.arg = "FAIL_SERIOUS", TRUE)]
        PROVE  Raised(e)'
    <2>1. exception'[x].event = e /\ exception'[x].item
      BY <1>3 DEF RaisedException, NoException, Inductive, TypeOK, RowsTypeOK
    <2> QED BY <2>1 DEF Raised
  <1>4. CASE (\A x \in Exception : exception[x] # NoException) /\ UNCHANGED exception
    BY <1>4 DEF Raised
  <1>5. \/ (\A x \in Exception : exception[x] # NoException) /\ UNCHANGED exception
        \/ \E x \in Exception : exception' = [exception EXCEPT ![x] =
             RaisedException(e, q.user, q.arg = "FAIL_SERIOUS", TRUE)]
    BY <1>1, <1>2 DEF InsertException
  <1> QED BY <1>3, <1>4, <1>5

\* A write that follows an inspection goes on to the exception of the item, and only the
\* inspection lets an item fail.
LEMMA WritesRaise ==
  ASSUME Inductive, NEW r \in Request, Writes(r), NEW q, q = request[r], NEW c, c = request'[r],
         q.at = "writeItem" => q.op = "inspect", NEW e \in Event
  PROVE  /\ Raised(e) => Raised(e)'
         /\ RaisesSoon(q, e) => Raised(e)'
         /\ Failed(e)' => Failed(e) \/ RaisesSoon(c, e)
  <1>1. Raised(e) => Raised(e)'
    BY ExceptionsKept, RaisedStays
  <1>2. RaisesSoon(q, e) => Raised(e)'
    <2>1. CASE InsertException(r)
      BY <2>1, InsertRaises
    <2>2. CASE ~InsertException(r)
      BY <2>2 DEF RaisesSoon, Writes, InsertMovement, WriteMovement, InsertGateEvent,
                  WriteTransition, InsertAttempt, RecordIdentity, InsertFallback,
                  WriteFallback, WriteItem, WriteResolution, InsertPair, RaiseDiscrepancy
    <2> QED BY <2>1, <2>2
  <1>3. Failed(e)' => Failed(e) \/ RaisesSoon(c, e)
    <2>1. CASE ~WriteItem(r)
      BY <2>1, ItemsKept DEF Failed
    <2>2. CASE WriteItem(r)
      <3>1. q.at = "writeItem" /\ Continue(r, q.arg # "PASS", "readEvent")
        BY <2>2 DEF WriteItem
      <3>2. event' = [event EXCEPT ![q.event].item = q.arg]
        BY <2>2 DEF WriteItem
      <3>3. q \in RequestRow
        BY InFlight
      <3>4. q.arg # "PASS" => c = [q EXCEPT !.at = "readEvent"]
        BY <3>1 DEF Continue, Inductive, TypeOK
      <3>5. CASE q.event = e /\ q.arg # "PASS"
        BY <3>1, <3>3, <3>4, <3>5 DEF RaisesSoon, RequestRow
      <3>6. CASE q.event # e \/ q.arg = "PASS"
        BY <3>2, <3>6 DEF Failed, Inductive, TypeOK, RowsTypeOK, EventRow
      <3> QED BY <3>5, <3>6
    <2> QED BY <2>1, <2>2
  <1> QED BY <1>1, <1>2, <1>3

LEMMA NextRaises ==
  ASSUME ~MayCrash, Inductive, RaisedInTime, [Next]_vars
  PROVE  RaisedInTime'
  <1>1. CASE UNCHANGED <<event, exception, request>>
    BY <1>1 DEF RaisedInTime, Failed, Raised
  <1>2. ASSUME NEW r \in Request, Asks(r) \/ Reads(r) \/ Writes(r)
        PROVE  RaisedInTime'
    <2>1. PICK q : q = request[r]
      OBVIOUS
    <2>2. PICK c : c = request'[r]
      OBVIOUS
    <2>3. request' = [request EXCEPT ![r] = c]
      BY <1>2, <2>2, StepsOwn
    <2>4. q.at = "writeItem" => q.op = "inspect"
      BY <2>1 DEF RaisedInTime
    <2>5. c.at = "writeItem" => c.op = "inspect"
      BY <1>2, <2>1, <2>2, Asked, Read, Wrote DEF StartsWell, Reading
    <2>6. ASSUME NEW e \in Event
          PROVE  /\ Raised(e) => Raised(e)'
                 /\ RaisesSoon(q, e) => Raised(e)' \/ RaisesSoon(c, e)
                 /\ Failed(e)' => Failed(e) \/ RaisesSoon(c, e)
      <3>1. CASE Writes(r)
        BY <2>1, <2>2, <2>4, <3>1, WritesRaise
      <3>2. CASE Reads(r)
        BY <2>1, <2>2, <3>2, Read DEF Reading, Raised, Failed, rows
      <3>3. CASE Asks(r)
        BY <2>1, <2>2, <3>3, Asked DEF RaisesSoon, Idle, Raised, Failed, rows
      <3> QED BY <1>2, <3>1, <3>2, <3>3
    <2>7. ASSUME NEW e \in Event, Failed(e)'
          PROVE  Raised(e)' \/ \E s \in Request : RaisesSoon(request'[s], e)
      <3>1. CASE RaisesSoon(c, e)
        BY <2>2, <3>1
      <3>2. CASE Raised(e)
        BY <2>6, <3>2
      <3>3. ASSUME NEW s \in Request, RaisesSoon(request[s], e)
            PROVE  Raised(e)' \/ \E t \in Request : RaisesSoon(request'[t], e)
        <4>1. CASE s = r
          BY <2>1, <2>2, <2>6, <3>3, <4>1
        <4>2. CASE s # r
          BY <2>3, <3>3, <4>2 DEF Inductive, TypeOK
        <4> QED BY <4>1, <4>2
      <3> QED BY <2>6, <2>7, <3>1, <3>2, <3>3 DEF RaisedInTime
    <2>8. \A s \in Request : request'[s].at = "writeItem" => request'[s].op = "inspect"
      BY <2>2, <2>3, <2>5 DEF RaisedInTime, Inductive, TypeOK
    <2>9. \A e \in Event : Failed(e)' => Raised(e)' \/ \E s \in Request : RaisesSoon(request'[s], e)
      BY <2>7
    <2> QED BY <2>8, <2>9 DEF RaisedInTime, RaisesSoon
  <1>3. ASSUME NEW r \in Request, Crash(r) PROVE FALSE
    BY <1>3 DEF Crash
  <1> QED BY <1>1, <1>2, <1>3, Statements, Outside DEF vars, rows

\* recordInspectionResult: a failed item has its exception as soon as no request is in
\* flight, among other requests too, provided that none dies in between.
THEOREM FailuresAreRaised == ~MayCrash => (Spec => []FailureIsRaised)
  <1> SUFFICES ASSUME ~MayCrash PROVE Spec => []FailureIsRaised
    OBVIOUS
  <1>1. Init => RaisedInTime
    BY DEF Init, RaisedInTime, Failed, NoEvent, Idle
  <1>2. Inductive /\ RaisedInTime /\ [Next]_vars => RaisedInTime'
    BY NextRaises
  <1>3. RaisedInTime => FailureIsRaised
    BY DEF RaisedInTime, FailureIsRaised, Quiescent, RaisesSoon, Idle, Failed, Raised
  <1> QED BY <1>1, <1>2, <1>3, AlwaysInductive, PTL DEF Spec

-------------------------------------------------------------------------------
(* Requests served one at a time.                                          *)

\* What the tables of transitions say, as far as the visits rely on it.
LEMMA VisitTransitions ==
  ASSUME NEW a, NEW b, <<a, b>> \in GateEventTransitions
  PROVE  /\ a \in GateEventStatus \ ClosedStatus /\ b \in GateEventStatus
         /\ b = "COMPLETED" <=> a \in {"CLEARED", "DENIED"}
         /\ b \in PastIdentity => a \in PastIdentity \/ b \in {"IDENTITY_VERIFIED", "EXCEPTION_RAISED"}
         /\ a # "NONE" /\ b # "NONE"
  BY DEF GateEventTransitions, GateEventStatus, ClosedStatus, PastIdentity

LEMMA MovementMoves ==
  ASSUME NEW a, NEW b, <<a, b>> \in MovementTransitions
  PROVE  /\ b \in MovementStatus /\ a # "NONE"
         /\ b = "IN_PROGRESS" => a = "APPROVED"
  BY DEF MovementTransitions, MovementStatus

\* Where a request goes on to a statement that relies on nothing but itself.
LEMMA ReliesOnNothing ==
  ASSUME NEW c,
         \/ c.at \in {"findPair", "insertPair", "raiseDiscrepancy"}
         \/ /\ c.at \in {"readEvent", "insertException", "insertFallback"}
            /\ c.op \notin {"clear", "complete"}
  PROVE  Timely(c)'
  BY DEF Timely, TimelyVisit, TimelyMove, TimelyMovement

\* A step of the lifecycle that clears no visit whose vehicle is locked out.
VisitStep ==
  /\ [Lifecycle!Next]_(Lifecycle!vars)
  /\ \A e \in Event : event[e].status # "CLEARED" /\ event'[e].status = "CLEARED"
       => "vehicle" \in available[event[e].movement]

LEMMA VisitsStay ==
  ASSUME UNCHANGED movement,
         \A e \in Event : /\ event'[e].status = event[e].status
                          /\ event'[e].movement = event[e].movement
                          /\ event'[e].direction = event[e].direction
  PROVE  VisitStep
  BY DEF VisitStep, Lifecycle!vars

LEMMA IdentifiedStays ==
  ASSUME ExceptionsStay, NEW e \in Event, Identified(e), UNCHANGED event
  PROVE  Identified(e)'
  <1>1. CASE \E x \in Exception : exception[x].event = e
    <2>1. PICK x \in Exception : exception[x].event = e
      BY <1>1
    <2>2. exception[x] # NoException
      BY <2>1, NoneAssumption DEF NoException, Identifier
    <2> QED BY <2>1, <2>2 DEF ExceptionsStay, Identified
  <1>2. CASE event[e].identity \in {"VERIFIED", "MANUAL_FALLBACK_APPROVED"}
    BY <1>2 DEF Identified
  <1> QED BY <1>1, <1>2 DEF Identified

\* Neither a movement nor a visit is written: the visits stay sound.
LEMMA VisitsKept ==
  ASSUME VisitsSound, ExceptionsStay, UNCHANGED <<movement, event>>
  PROVE  VisitsSound' /\ VisitStep
  <1>1. ASSUME NEW e \in Event PROVE VisitSound(e)'
    <2>1. VisitSound(e)
      BY DEF VisitsSound
    <2> QED BY <2>1, IdentifiedStays DEF VisitSound
  <1>2. OneOpenEventPerMovement' /\ UnderWayMeansEntered'
    BY DEF VisitsSound, OneOpenEventPerMovement, UnderWayMeansEntered, Open
  <1> QED BY <1>1, <1>2, VisitsStay DEF VisitsSound

\* The statements that write neither: the attempts, the fallbacks, the pairs, and the
\* exceptions with what follows them.
LEMMA ApartAlone ==
  ASSUME Inductive, VisitsSound, NEW r \in Request, NEW q, q = request[r], Timely(q),
         NEW c, c = request'[r],
         \/ InsertAttempt(r) \/ InsertFallback(r) \/ WriteFallback(r) \/ InsertPair(r)
         \/ InsertException(r) \/ RaiseDiscrepancy(r) \/ WriteResolution(r)
  PROVE  VisitsSound' /\ VisitStep /\ Timely(c)'
  <1>0. q \in RequestRow /\ WellFormed(q) /\ TypeOK
    BY InFlight DEF Inductive
  <1>1. VisitsSound' /\ VisitStep
    <2>1. UNCHANGED <<movement, event>>
      BY DEF InsertAttempt, InsertFallback, WriteFallback, InsertPair, InsertException,
             RaiseDiscrepancy, WriteResolution
    <2> QED BY <2>1, ExceptionsKept, VisitsKept DEF Writes
  <1>2. Timely(c)'
    <2> USE <1>0, IdleTimely DEF RequestRow, Idle
    <2>1. CASE InsertAttempt(r)
      <3>1. /\ q.at = "insertAttempt" /\ UNCHANGED <<event, exception, movement, available>>
            /\ c = [q EXCEPT !.at = "recordIdentity"] \/ c = Idle
        BY <2>1 DEF InsertAttempt, Continue, TypeOK
      <3>2. Timely([q EXCEPT !.at = "recordIdentity"])'
        BY <3>1 DEF Timely, TimelyVisit, TimelyMove, TimelyMovement, PendingIdentity
      <3> QED BY <3>1, <3>2
    <2>2. CASE InsertFallback(r)
      BY <2>2 DEF InsertFallback, Finish, TypeOK
    <2>3. CASE WriteFallback(r)
      BY <2>3 DEF WriteFallback, Finish, TypeOK
    <2>4. CASE InsertPair(r)
      <3>1. c = [q EXCEPT !.at = "raiseDiscrepancy"] \/ c = Idle
        BY <2>4 DEF InsertPair, Continue, TypeOK
      <3> QED BY <3>1, ReliesOnNothing
    <2>5. CASE RaiseDiscrepancy(r)
      <3>1. c = [q EXCEPT !.at = "raiseDiscrepancy"] \/ c = Idle
        BY <2>5 DEF RaiseDiscrepancy, Continue, Finish, TypeOK
      <3> QED BY <3>1, ReliesOnNothing
    <2>6. CASE InsertException(r)
      <3>1. CASE c = Idle
        BY <3>1
      <3>2. CASE exception' # exception /\ c = [q EXCEPT !.at = "checkEvent", !.to = "EXCEPTION_RAISED"]
        <4>1. q.at = "insertException"
          BY <2>6 DEF InsertException
        <4>2. PICK x \in Exception : exception' = [exception EXCEPT ![x] =
                RaisedException(q.event, q.user, q.arg = "FAIL_SERIOUS", q.op = "inspect")]
          BY <2>6, <3>2 DEF InsertException
        <4>3. exception'[x].event = q.event
          BY <4>2 DEF RaisedException, NoException, TypeOK, RowsTypeOK
        <4>4. Identified(q.event)'
          BY <4>3 DEF Identified
        <4> QED BY <3>2, <4>1, <4>4 DEF Timely, TimelyVisit, TimelyMove, TimelyMovement,
                                       Identified
      <3> QED BY <2>6, <3>1, <3>2 DEF InsertException, TypeOK
    <2>7. CASE WriteResolution(r)
      <3>1. PICK to : to = IF q.arg \in BlockOutcome THEN "DENIED" ELSE "VEHICLE_CHECKS_IN_PROGRESS"
        OBVIOUS
      <3>2. q.at = "writeResolution" /\ c = [q EXCEPT !.at = "checkEvent", !.to = to]
        BY <2>7, <3>1 DEF WriteResolution, TypeOK
      <3> QED BY <3>1, <3>2 DEF Timely, TimelyVisit, TimelyMove, TimelyMovement
    <2> QED BY <2>1, <2>2, <2>3, <2>4, <2>5, <2>6, <2>7
  <1> QED BY <1>1, <1>2

\* The status of one movement is written: a step of the lifecycle, if that is allowed.
LEMMA MovementAuthorised ==
  ASSUME TypeOK, NEW m \in Movement, NEW row, movement' = [movement EXCEPT ![m] = row],
         UNCHANGED event, row.status \in MovementStatus,
         \/ movement[m].status = "NONE" /\ row.status = "DRAFT"
         \/ <<movement[m].status, row.status>> \in MovementTransitions,
         row.status = "IN_PROGRESS" => Went(m, "ENTRY", {"CLEARED"}),
         row.status = "COMPLETED" => Went(m, "EXIT", {"COMPLETED"})
  PROVE  VisitStep
  <1>1. [n \in Movement |-> movement'[n].status]
          = [[n \in Movement |-> movement[n].status] EXCEPT ![m] = row.status]
    BY DEF TypeOK, RowsTypeOK
  <1>2. MovementTransitions = Lifecycle!MovementTransitions /\ MovementStatus = Lifecycle!MovementStatus
    BY DEF MovementTransitions, Lifecycle!MovementTransitions, MovementStatus,
           Lifecycle!MovementStatus
  <1>3. Lifecycle!Through(m, "ENTRY", {"CLEARED"}) <=> Went(m, "ENTRY", {"CLEARED"})
    BY DEF Lifecycle!Through, Went
  <1>4. Lifecycle!Through(m, "EXIT", {"COMPLETED"}) <=> Went(m, "EXIT", {"COMPLETED"})
    BY DEF Lifecycle!Through, Went
  <1>5. Lifecycle!Authorise(m)
    BY <1>1, <1>2, <1>3, <1>4 DEF Lifecycle!Authorise
  <1> QED BY <1>5 DEF VisitStep, Lifecycle!Next

\* createMovement's insert: a new DRAFT, or nothing.
LEMMA InsertMovementAlone ==
  ASSUME Inductive, VisitsSound, NEW r \in Request, NEW q, q = request[r], Timely(q),
         NEW c, c = request'[r], InsertMovement(r)
  PROVE  VisitsSound' /\ VisitStep /\ Timely(c)'
  <1>0. TypeOK
    BY DEF Inductive
  <1>1. c = Idle /\ UNCHANGED <<event, exception>>
    BY <1>0 DEF InsertMovement, Finish, TypeOK, others
  <1>2. CASE UNCHANGED movement
    BY <1>1, <1>2, IdleTimely, VisitsKept DEF ExceptionsStay
  <1>3. CASE movement' # movement
    <2>1. PICK m : m = q.movement
      OBVIOUS
    <2>2. movement' = [movement EXCEPT ![m] =
            IF movement[m] = NoMovement
            THEN [movement[m] EXCEPT !.status = "DRAFT", !.requester = q.user] ELSE movement[m]]
      BY <2>1 DEF InsertMovement
    <2>3. m \in Movement /\ movement[m] = NoMovement
      BY <1>0, <1>3, <2>2 DEF TypeOK, RowsTypeOK
    <2>4. PICK row : row = [NoMovement EXCEPT !.status = "DRAFT", !.requester = q.user]
      OBVIOUS
    <2>5. movement' = [movement EXCEPT ![m] = row]
      BY <2>2, <2>3, <2>4
    <2>6. row.status = "DRAFT" /\ movement[m].status = "NONE"
      BY <2>3, <2>4 DEF NoMovement
    <2>7. VisitStep
      BY <1>0, <1>1, <2>3, <2>5, <2>6, MovementAuthorised DEF MovementStatus
    <2>8. UnderWayMeansEntered'
      BY <1>0, <1>1, <2>3, <2>5, <2>6 DEF VisitsSound, UnderWayMeansEntered, TypeOK, RowsTypeOK
    <2>9. OneOpenEventPerMovement' /\ \A e \in Event : VisitSound(e)'
      BY <1>1 DEF VisitsSound, OneOpenEventPerMovement, Open, VisitSound, Identified
    <2> QED BY <1>1, <2>7, <2>8, <2>9, IdleTimely DEF VisitsSound
  <1> QED BY <1>2, <1>3

\* transition()'s update: along the table, for nobody has moved the row in between.
LEMMA WriteMovementAlone ==
  ASSUME Inductive, VisitsSound, NEW r \in Request, NEW q, q = request[r], Timely(q),
         NEW c, c = request'[r], WriteMovement(r)
  PROVE  VisitsSound' /\ VisitStep /\ Timely(c)'
  <1>0. q \in RequestRow /\ WellFormed(q) /\ TypeOK /\ q.at = "writeMovement"
    BY InFlight DEF Inductive, WriteMovement
  <1>1. UNCHANGED <<event, exception>>
    BY DEF WriteMovement, others
  <1>2. PICK m : m = q.movement
    OBVIOUS
  <1>3. PICK row : row = [movement[m] EXCEPT !.status = q.to,
                            !.approver = IF q.to \in {"APPROVED", "REJECTED"}
                                         THEN q.user ELSE movement[m].approver]
    OBVIOUS
  <1>4. movement' = [movement EXCEPT ![m] = row]
    BY <1>2, <1>3 DEF WriteMovement
  <1>5. /\ m \in Movement /\ <<movement[m].status, q.to>> \in MovementTransitions
        /\ q.to = "IN_PROGRESS" => Went(m, "ENTRY", {"CLEARED"})
        /\ q.to = "COMPLETED" => Went(m, "EXIT", {"COMPLETED"})
    BY <1>0, <1>2 DEF Timely, TimelyMovement
  <1>6. movement[m] \in MovementRow
    BY <1>0, <1>5 DEF TypeOK, RowsTypeOK
  <1>7. row.status = q.to /\ (q.to = "IN_PROGRESS" => row.approver = movement[m].approver
                                                   /\ row.requester = movement[m].requester)
    BY <1>3, <1>6 DEF MovementRow
  <1>8. q.to \in MovementStatus /\ (q.to = "IN_PROGRESS" => movement[m].status = "APPROVED")
    BY <1>5, MovementMoves
  <1>9. VisitStep
    BY <1>0, <1>1, <1>4, <1>5, <1>7, <1>8, MovementAuthorised
  <1>10. UnderWayMeansEntered'
    <2> SUFFICES ASSUME NEW n \in Movement, movement'[n].status = "IN_PROGRESS"
                 PROVE  /\ AllowSelfApprove \/ movement'[n].approver \notin {None, movement'[n].requester}
                        /\ \E e \in Event : /\ event[e].movement = n /\ event[e].direction = "ENTRY"
                                            /\ event[e].decision = "CLEARED"
      BY <1>1 DEF UnderWayMeansEntered
    <2>1. CASE n = m
      <3>1. movement'[n] = row
        BY <1>0, <1>4, <1>5, <2>1 DEF TypeOK, RowsTypeOK
      <3>2. movement[m].status = "APPROVED" /\ q.to = "IN_PROGRESS"
        BY <1>7, <1>8, <3>1
      <3>3. AllowSelfApprove \/ movement[m].approver \notin {None, movement[m].requester}
        BY <1>5, <3>2 DEF Inductive, Safe, ApproverIsNotRequester
      <3>4. PICK e \in Event : /\ event[e].movement = m /\ event[e].direction = "ENTRY"
                               /\ event[e].status = "CLEARED"
        BY <1>5, <3>2 DEF Went
      <3>5. event[e].decision = "CLEARED"
        BY <3>4 DEF Inductive, Safe, DecisionMatchesStatus
      <3> QED BY <1>7, <2>1, <3>1, <3>2, <3>3, <3>4, <3>5
    <2>2. CASE n # m
      <3>1. movement'[n] = movement[n]
        BY <1>0, <1>4, <2>2 DEF TypeOK, RowsTypeOK
      <3> QED BY <3>1 DEF VisitsSound, UnderWayMeansEntered
    <2> QED BY <2>1, <2>2
  <1>11. OneOpenEventPerMovement' /\ \A e \in Event : VisitSound(e)'
    BY <1>1 DEF VisitsSound, OneOpenEventPerMovement, Open, VisitSound, Identified
  <1>12. Timely(c)'
    <2>1. c = [q EXCEPT !.at = "findPair"] \/ c = Idle
      BY <1>0 DEF WriteMovement, Continue, TypeOK
    <2> QED BY <1>0, <2>1, IdleTimely, ReliesOnNothing DEF RequestRow
  <1> QED BY <1>9, <1>10, <1>11, <1>12 DEF VisitsSound

\* The identity columns and the item of a visit in progress: no status moves.
LEMMA RecordedAlone ==
  ASSUME Inductive, VisitsSound, NEW r \in Request, NEW q, q = request[r], Timely(q),
         NEW c, c = request'[r], RecordIdentity(r) \/ WriteItem(r)
  PROVE  VisitsSound' /\ VisitStep /\ Timely(c)'
  <1>0. q \in RequestRow /\ WellFormed(q) /\ TypeOK
    BY InFlight DEF Inductive
  <1>1. UNCHANGED <<movement, exception>>
    BY DEF RecordIdentity, WriteItem
  <1>2. q.event \in Event /\ event[q.event].status \notin PastIdentity \ {"VEHICLE_CHECKS_IN_PROGRESS"}
        /\ event[q.event].status # "NONE"
    BY <1>0 DEF RecordIdentity, WriteItem, WellFormed, Timely, TimelyVisit, PendingIdentity,
                PastIdentity
  <1>3. \A e \in Event : /\ event'[e].status = event[e].status
                         /\ event'[e].movement = event[e].movement
                         /\ event'[e].direction = event[e].direction
                         /\ event'[e].decision = event[e].decision
    BY <1>0 DEF RecordIdentity, WriteItem, TypeOK, RowsTypeOK, EventRow
  <1>4. VisitStep
    BY <1>1, <1>3, VisitsStay
  <1>5. OneOpenEventPerMovement' /\ UnderWayMeansEntered'
    BY <1>1, <1>3 DEF VisitsSound, OneOpenEventPerMovement, UnderWayMeansEntered, Open
  <1>6. ASSUME NEW e \in Event, e # q.event PROVE event'[e] = event[e]
    BY <1>0, <1>6 DEF RecordIdentity, WriteItem, TypeOK, RowsTypeOK
  <1>7. event[q.event].status \in PastIdentity => event'[q.event].identity = event[q.event].identity
    <2>1. CASE RecordIdentity(r)
      BY <1>0, <2>1 DEF RecordIdentity, Timely, TimelyVisit, PendingIdentity, PastIdentity
    <2>2. CASE WriteItem(r)
      BY <1>0, <1>2, <2>2 DEF WriteItem, TypeOK, RowsTypeOK, EventRow
    <2> QED BY <2>1, <2>2
  <1>8. ASSUME NEW e \in Event PROVE VisitSound(e)'
    <2>1. CASE e # q.event
      BY <1>1, <1>6, <2>1 DEF VisitsSound, VisitSound, Identified
    <2>2. CASE e = q.event
      <3>1. event[e] # NoEvent
        BY <1>2, <2>2 DEF NoEvent
      <3> QED BY <1>1, <1>2, <1>3, <1>7, <2>2, <3>1 DEF VisitsSound, VisitSound, Identified
    <2> QED BY <2>1, <2>2
  <1>9. Timely(c)'
    <2>1. CASE WriteItem(r)
      <3>1. c = [q EXCEPT !.at = "readEvent"] \/ c = Idle
        BY <1>0, <2>1 DEF WriteItem, Continue, TypeOK
      <3>2. q.op \notin {"clear", "complete"}
        BY <2>1 DEF WriteItem, Timely, TimelyMove
      <3> QED BY <1>0, <3>1, <3>2, IdleTimely, ReliesOnNothing DEF RequestRow
    <2>2. CASE RecordIdentity(r)
      <3>1. CASE c = Idle
        BY <3>1, IdleTimely
      <3>2. CASE q.arg # "NOT_VERIFIED" /\ c = [q EXCEPT !.at = "checkEvent", !.to = "IDENTITY_VERIFIED"]
        <4>1. q.at = "recordIdentity" /\ event' = [event EXCEPT ![q.event].identity = q.arg]
          BY <2>2 DEF RecordIdentity
        <4>2. q.arg \in {"VERIFIED", "MANUAL_FALLBACK_APPROVED"}
          BY <1>0, <3>2, <4>1 DEF WellFormed, Identity
        <4>3. event'[q.event].identity = q.arg
          BY <1>0, <1>2, <4>1 DEF TypeOK, RowsTypeOK, EventRow
        <4>4. Identified(q.event)'
          BY <4>2, <4>3 DEF Identified
        <4>5. c.at = "checkEvent" /\ c.to = "IDENTITY_VERIFIED" /\ c.op = q.op /\ c.event = q.event
          BY <1>0, <3>2 DEF RequestRow
        <4>6. q.op \notin {"clear", "complete"}
          BY <4>1 DEF Timely, TimelyMove
        <4> QED BY <4>4, <4>5, <4>6 DEF Timely, TimelyVisit, TimelyMove, TimelyMovement, Identified
      <3> QED BY <1>0, <2>2, <3>1, <3>2 DEF RecordIdentity, TypeOK
    <2> QED BY <2>1, <2>2
  <1> QED BY <1>4, <1>5, <1>8, <1>9 DEF VisitsSound

\* startGateEvent's insert: the only open visit of its approved movement, or nothing.
LEMMA InsertGateEventAlone ==
  ASSUME Inductive, VisitsSound, NEW r \in Request, NEW q, q = request[r], Timely(q),
         NEW c, c = request'[r], InsertGateEvent(r)
  PROVE  VisitsSound' /\ VisitStep /\ Timely(c)'
  <1>0. q \in RequestRow /\ WellFormed(q) /\ TypeOK /\ q.at = "insertEvent"
    BY InFlight DEF Inductive, InsertGateEvent
  <1>1. UNCHANGED <<movement, exception>>
    BY DEF InsertGateEvent
  <1>2. CASE c = Idle /\ UNCHANGED event
    BY <1>1, <1>2, IdleTimely, VisitsKept DEF ExceptionsStay
  <1>3. ASSUME NEW e \in Event, event[e] = NoEvent, NEW row,
               row = [NoEvent EXCEPT !.status = "EXPECTED", !.movement = q.movement,
                                     !.direction = q.arg],
               event' = [event EXCEPT ![e] = row],
               c = [q EXCEPT !.at = "checkEvent", !.event = e, !.to = "INSPECTION_STARTED"]
        PROVE  VisitsSound' /\ VisitStep /\ Timely(c)'
    <2>1. /\ q.movement \in Movement /\ movement[q.movement].status = "APPROVED"
          /\ \A f \in Event : Open(f) => event[f].movement # q.movement
          /\ q.arg \in Direction
      BY <1>0 DEF Timely, TimelyVisit, WellFormed
    <2>2. /\ row.status = "EXPECTED" /\ row.movement = q.movement /\ row.direction = q.arg
          /\ row.decision = "NONE"
      BY <1>3 DEF NoEvent
    <2>3. event'[e] = row /\ \A f \in Event \ {e} : event'[f] = event[f]
      BY <1>0, <1>3 DEF TypeOK, RowsTypeOK
    <2>4. \A f \in Event : VisitSound(f)'
      <3>1. VisitSound(e)'
        BY <2>1, <2>2, <2>3 DEF VisitSound, PastIdentity
      <3>2. ASSUME NEW f \in Event, f # e PROVE VisitSound(f)'
        BY <1>1, <2>3, <3>2 DEF VisitsSound, VisitSound, Identified
      <3> QED BY <3>1, <3>2
    <2>5. OneOpenEventPerMovement'
      BY <2>1, <2>2, <2>3 DEF VisitsSound, OneOpenEventPerMovement, Open
    <2>6. UnderWayMeansEntered'
      <3> SUFFICES ASSUME NEW m \in Movement, movement[m].status = "IN_PROGRESS"
                   PROVE  /\ AllowSelfApprove \/ movement[m].approver \notin {None, movement[m].requester}
                          /\ \E f \in Event : /\ event'[f].movement = m
                                              /\ event'[f].direction = "ENTRY"
                                              /\ event'[f].decision = "CLEARED"
        BY <1>1 DEF UnderWayMeansEntered
      <3>1. PICK f \in Event : /\ event[f].movement = m /\ event[f].direction = "ENTRY"
                               /\ event[f].decision = "CLEARED"
        BY DEF VisitsSound, UnderWayMeansEntered
      <3>2. f # e
        BY <1>3, <3>1 DEF NoEvent
      <3> QED BY <2>3, <3>1, <3>2 DEF VisitsSound, UnderWayMeansEntered
    <2>7. Lifecycle!OpenVisit(e)
      <3>1. Lifecycle!OpenVisits(q.movement) = {}
        <4>1. ASSUME NEW f \in Event, event[f].movement = q.movement,
                     event[f].status \notin Lifecycle!ClosedStatus
              PROVE  FALSE
          <5>1. event[f].status = "NONE"
            BY <2>1, <4>1 DEF Open, ClosedStatus, Lifecycle!ClosedStatus
          <5>2. event[f] = NoEvent
            BY <5>1 DEF VisitsSound, VisitSound
          <5> QED BY <2>1, <4>1, <5>2, NoneAssumption DEF NoEvent, Identifier
        <4> QED BY <4>1 DEF Lifecycle!OpenVisits
      <3>2. [f \in Event |-> event'[f].status]
              = [[f \in Event |-> event[f].status] EXCEPT ![e] = "EXPECTED"]
        BY <2>2, <2>3
      <3>3. [f \in Event |-> event'[f].movement]
              = [[f \in Event |-> event[f].movement] EXCEPT ![e] = q.movement]
        BY <2>2, <2>3
      <3>4. [f \in Event |-> event'[f].direction]
              = [[f \in Event |-> event[f].direction] EXCEPT ![e] = q.arg]
        BY <2>2, <2>3
      <3>5. event[e].status = "NONE"
        BY <1>3 DEF NoEvent
      <3> QED BY <1>1, <2>1, <3>1, <3>2, <3>3, <3>4, <3>5 DEF Lifecycle!OpenVisit, Direction
    <2>8. VisitStep
      BY <2>2, <2>3, <2>7 DEF VisitStep, Lifecycle!Next
    <2>9. Timely(c)'
      <3>1. q.op \notin {"clear", "complete"}
        BY <1>0 DEF Timely, TimelyMove
      <3>2. c.at = "checkEvent" /\ c.to = "INSPECTION_STARTED" /\ c.op = q.op
        BY <1>0, <1>3 DEF RequestRow
      <3> QED BY <3>1, <3>2 DEF Timely, TimelyVisit, TimelyMove, TimelyMovement
    <2> QED BY <2>4, <2>5, <2>6, <2>8, <2>9 DEF VisitsSound
  <1>4. CASE \E e \in Event :
               /\ event[e] = NoEvent
               /\ event' = [event EXCEPT ![e] = [NoEvent EXCEPT !.status = "EXPECTED",
                              !.movement = q.movement, !.direction = q.arg]]
               /\ c = [q EXCEPT !.at = "checkEvent", !.event = e, !.to = "INSPECTION_STARTED"]
    BY <1>3, <1>4
  <1> QED BY <1>0, <1>2, <1>4 DEF InsertGateEvent, Exists, Finish, TypeOK

\* transitionGateEvent's update: along the table, for nobody has moved the row in between.
LEMMA WriteTransitionAlone ==
  ASSUME Inductive, VisitsSound, NEW r \in Request, NEW q, q = request[r], Timely(q),
         NEW c, c = request'[r], WriteTransition(r)
  PROVE  VisitsSound' /\ VisitStep /\ Timely(c)'
  <1>0. q \in RequestRow /\ WellFormed(q) /\ TypeOK /\ q.at = "writeEvent"
    BY InFlight DEF Inductive, WriteTransition
  <1>1. UNCHANGED <<movement, exception, available>>
    BY DEF WriteTransition
  <1>2. PICK e \in Event : e = q.event
    BY <1>0 DEF WellFormed
  <1>3. PICK row : row = [event[e] EXCEPT !.status = q.to,
                            !.decision = DecisionAfter(q.to, event[e].decision)]
    OBVIOUS
  <1>4. event'[e] = row /\ \A f \in Event \ {e} : event'[f] = event[f]
    BY <1>0, <1>2, <1>3 DEF WriteTransition, TypeOK, RowsTypeOK
  <1>5. /\ row.status = q.to /\ row.movement = event[e].movement
        /\ row.direction = event[e].direction /\ row.identity = event[e].identity
        /\ row.decision = DecisionAfter(q.to, event[e].decision)
    BY <1>0, <1>2, <1>3 DEF TypeOK, RowsTypeOK, EventRow
  <1>6. <<event[e].status, q.to>> \in GateEventTransitions
    BY <1>0, <1>2 DEF Timely, TimelyMove
  <1>7. /\ event[e].status \in GateEventStatus \ ClosedStatus /\ q.to \in GateEventStatus
        /\ q.to = "COMPLETED" <=> event[e].status \in {"CLEARED", "DENIED"}
        /\ q.to \in PastIdentity =>
             event[e].status \in PastIdentity \/ q.to \in {"IDENTITY_VERIFIED", "EXCEPTION_RAISED"}
        /\ event[e].status # "NONE" /\ q.to # "NONE"
    BY <1>6, VisitTransitions
  <1>8. VisitSound(e) /\ event[e] # NoEvent
    BY <1>7 DEF VisitsSound, NoEvent
  <1>9. event[e].decision = "CLEARED" => q.to = "COMPLETED" /\ row.decision = "CLEARED"
    BY <1>5, <1>7, <1>8 DEF VisitSound, DecisionAfter, ClosedStatus
  <1>10. \A f \in Event : VisitSound(f)'
    <2>1. VisitSound(e)'
      <3>1. row.decision = "CLEARED" => q.to \in {"CLEARED", "COMPLETED"}
        BY <1>5, <1>9 DEF DecisionAfter
      <3>2. q.to \in PastIdentity => Identified(e)
        BY <1>0, <1>2, <1>7, <1>8 DEF VisitSound, Timely, TimelyMove
      <3> QED BY <1>1, <1>4, <1>5, <1>7, <1>8, <3>1, <3>2 DEF VisitSound, Identified
    <2>2. ASSUME NEW f \in Event, f # e PROVE VisitSound(f)'
      BY <1>1, <1>4, <2>2 DEF VisitsSound, VisitSound, Identified
    <2> QED BY <2>1, <2>2
  <1>11. OneOpenEventPerMovement'
    BY <1>4, <1>5, <1>7 DEF VisitsSound, OneOpenEventPerMovement, Open
  <1>12. UnderWayMeansEntered'
    <2> SUFFICES ASSUME NEW m \in Movement, movement[m].status = "IN_PROGRESS"
                 PROVE  /\ AllowSelfApprove \/ movement[m].approver \notin {None, movement[m].requester}
                        /\ \E f \in Event : /\ event'[f].movement = m
                                            /\ event'[f].direction = "ENTRY"
                                            /\ event'[f].decision = "CLEARED"
      BY <1>1 DEF UnderWayMeansEntered
    <2>1. PICK f \in Event : /\ event[f].movement = m /\ event[f].direction = "ENTRY"
                             /\ event[f].decision = "CLEARED"
      BY DEF VisitsSound, UnderWayMeansEntered
    <2>2. /\ event'[f].movement = m /\ event'[f].direction = "ENTRY"
          /\ event'[f].decision = "CLEARED"
      BY <1>4, <1>5, <1>9, <2>1
    <2> QED BY <2>2 DEF VisitsSound, UnderWayMeansEntered
  <1>13. VisitStep
    <2>1. [f \in Event |-> event'[f].status]
            = [[f \in Event |-> event[f].status] EXCEPT ![e] = q.to]
      BY <1>4, <1>5
    <2>2. /\ [f \in Event |-> event'[f].movement] = [f \in Event |-> event[f].movement]
          /\ [f \in Event |-> event'[f].direction] = [f \in Event |-> event[f].direction]
      BY <1>4, <1>5
    <2>3. /\ GateEventTransitions = Lifecycle!GateEventTransitions
          /\ GateEventStatus = Lifecycle!GateEventStatus
      BY DEF GateEventTransitions, Lifecycle!GateEventTransitions, GateEventStatus,
             Lifecycle!GateEventStatus
    <2>4. Lifecycle!MoveVisit(e)
      BY <1>1, <1>6, <1>7, <2>1, <2>2, <2>3 DEF Lifecycle!MoveVisit
    <2>5. ASSUME NEW f \in Event, event[f].status # "CLEARED", event'[f].status = "CLEARED"
          PROVE  "vehicle" \in available[event[f].movement]
      <3>1. f = e /\ q.to = "CLEARED"
        BY <1>4, <1>5, <2>5
      <3> QED BY <1>0, <1>2, <3>1 DEF Timely, TimelyMove
    <2> QED BY <2>4, <2>5 DEF VisitStep, Lifecycle!Next
  <1>14. Timely(c)'
    <2>1. CASE Enters(q) \/ Leaves(q)
      <3>1. PICK m, to : /\ m = event[e].movement
                         /\ to = IF Enters(q) THEN "IN_PROGRESS" ELSE "COMPLETED"
        OBVIOUS
      <3>2. c = [q EXCEPT !.at = "readMovement", !.movement = m, !.to = to]
        BY <1>0, <1>2, <2>1, <3>1 DEF WriteTransition, TypeOK
      <3>3. c.at = "readMovement" /\ c.movement = m /\ c.to = to /\ c.op = q.op
        BY <1>0, <3>2 DEF RequestRow
      <3>4. m \in Movement
        BY <1>8, <3>1 DEF VisitSound
      <3>5. to = "IN_PROGRESS" => Went(m, "ENTRY", {"CLEARED"})'
        BY <1>0, <1>2, <1>4, <1>5, <3>1 DEF Enters, Timely, TimelyMove, Went
      <3>6. to = "COMPLETED" => Went(m, "EXIT", {"COMPLETED"})'
        BY <1>0, <1>2, <1>4, <1>5, <2>1, <3>1 DEF Leaves, Pairs, Timely, TimelyMove, Went
      <3>7. q.op = "complete" => to = "COMPLETED"
        BY <3>1 DEF Enters
      <3> QED BY <1>1, <3>3, <3>4, <3>5, <3>6, <3>7
              DEF Timely, TimelyVisit, TimelyMove, TimelyMovement, Went
    <2>2. CASE ~(Enters(q) \/ Leaves(q)) /\ Pairs(q)
      <3>1. c = [q EXCEPT !.at = "findPair", !.movement = event[e].movement]
        BY <1>0, <1>2, <2>2 DEF WriteTransition, TypeOK
      <3>2. c.at = "findPair"
        BY <1>0, <3>1 DEF RequestRow
      <3> QED BY <3>2, ReliesOnNothing
    <2>3. CASE ~(Enters(q) \/ Leaves(q)) /\ ~Pairs(q)
      <3>1. c = Idle
        BY <1>0, <2>3 DEF WriteTransition, TypeOK
      <3> QED BY <3>1, IdleTimely
    <2> QED BY <2>1, <2>2, <2>3
  <1> QED BY <1>10, <1>11, <1>12, <1>13, <1>14 DEF VisitsSound

\* Every write of a request that is alone.
LEMMA WritesAlone ==
  ASSUME Inductive, VisitsSound, NEW r \in Request, NEW q, q = request[r], Timely(q),
         NEW c, c = request'[r], Writes(r)
  PROVE  VisitsSound' /\ VisitStep /\ Timely(c)'
  BY ApartAlone, InsertMovementAlone, WriteMovementAlone, RecordedAlone, InsertGateEventAlone,
     WriteTransitionAlone DEF Writes

\* What a request has found stays so while nothing is written.
LEMMA TimelyStill ==
  ASSUME NEW c, Timely(c), UNCHANGED <<movement, available, event, exception>>
  PROVE  Timely(c)'
  BY DEF Timely, TimelyVisit, TimelyMove, TimelyMovement, Went, Identified, Open,
         PendingIdentity

\* The only request in flight goes on as c.
LEMMA AloneGoesOn ==
  ASSUME TypeOK, NEW r \in Request, OthersIdle(r), NEW c,
         request' = [request EXCEPT ![r] = c], Timely(c)', VisitsSound'
  PROVE  OneAtATime'
  <1>1. request'[r] = c /\ \A s \in Request \ {r} : request'[s] = Idle
    BY DEF TypeOK, OthersIdle
  <1>2. Alone'
    BY <1>1 DEF Alone
  <1>3. ASSUME NEW s \in Request PROVE Timely(request[s])'
    <2>1. PICK p : p = request'[s]
      OBVIOUS
    <2>2. Timely(p)'
      BY <1>1, <2>1, IdleTimely
    <2> QED BY <2>1, <2>2
            DEF Timely, TimelyVisit, TimelyMove, TimelyMovement, Went, Identified, Open,
                PendingIdentity
  <1> QED BY <1>2, <1>3 DEF OneAtATime

\* Every step of requests served one at a time: what they have found stays found, and the
\* visits follow their lifecycle.
LEMMA NextAlone ==
  ASSUME Serial, Inductive, OneAtATime, [Next]_vars
  PROVE  OneAtATime' /\ VisitStep
  <1>0. TypeOK /\ VisitsSound /\ Alone
    BY DEF Inductive, OneAtATime
  <1>1. CASE UNCHANGED <<movement, event, exception>>
    <2>1. VisitsSound' /\ VisitStep
      BY <1>0, <1>1, VisitsKept DEF ExceptionsStay
    <2>2. ASSUME UNCHANGED <<available, request>> PROVE OneAtATime'
      <3>1. ASSUME NEW s \in Request PROVE Timely(request[s])'
        <4>1. PICK p : p = request[s]
          OBVIOUS
        <4>2. Timely(p)'
          BY <1>1, <2>2, <4>1, TimelyStill DEF OneAtATime
        <4> QED BY <2>2, <4>1, <4>2
                DEF Timely, TimelyVisit, TimelyMove, TimelyMovement, Went, Identified, Open,
                    PendingIdentity
      <3> QED BY <1>0, <2>1, <2>2, <3>1 DEF OneAtATime, Alone
    <2>3. ASSUME UNCHANGED request, Quiescent PROVE OneAtATime'
      <3>1. ASSUME NEW s \in Request PROVE Timely(request[s])'
        <4>1. request'[s] = Idle
          BY <2>3 DEF Quiescent
        <4> QED BY <4>1, IdleTimely
                DEF Timely, TimelyVisit, TimelyMove, TimelyMovement, Idle
      <3> QED BY <1>0, <2>1, <2>3, <3>1 DEF OneAtATime, Alone
    <2>4. ASSUME NEW r \in Request, Asks(r) \/ Reads(r) \/ Crash(r) PROVE OneAtATime'
      <3>1. PICK c : c = request'[r]
        OBVIOUS
      <3>2. OthersIdle(r) /\ request' = [request EXCEPT ![r] = c]
        BY <1>0, <2>4, <3>1, StepsAlone, StepsOwn
      <3>3. Timely(c) /\ UNCHANGED rows
        BY <2>4, <3>1, Asked, Read, Died, IdleTimely DEF StartsWell, Reading, OneAtATime
      <3>4. Timely(c)'
        BY <3>3, TimelyStill DEF rows
      <3> QED BY <1>0, <2>1, <3>2, <3>4, AloneGoesOn
    <2>5. ASSUME NEW r \in Request, Writes(r) PROVE OneAtATime'
      <3>1. PICK q, c : q = request[r] /\ c = request'[r]
        OBVIOUS
      <3>2. OthersIdle(r) /\ request' = [request EXCEPT ![r] = c]
        BY <1>0, <2>5, <3>1, StepsAlone, StepsOwn
      <3>3. Timely(q)
        BY <3>1 DEF OneAtATime
      <3>4. Timely(c)'
        BY <1>0, <2>5, <3>1, <3>3, WritesAlone
      <3> QED BY <1>0, <2>1, <3>2, <3>4, AloneGoesOn
    <2>6. ASSUME NEW m \in Movement, ChangeAvailability(m) PROVE UNCHANGED request /\ Quiescent
      BY <2>6 DEF ChangeAvailability
    <2>7. ASSUME NEW k \in Attempt, WindowPasses(k) PROVE UNCHANGED <<available, request>>
      BY <2>7 DEF WindowPasses
    <2>8. CASE UNCHANGED vars
      BY <2>1, <2>2, <2>8 DEF vars, rows
    <2>9. CASE \E m \in Movement : ChangeAvailability(m)
      BY <2>1, <2>3, <2>6, <2>9
    <2>10. CASE \E k \in Attempt : WindowPasses(k)
      BY <2>1, <2>2, <2>7, <2>10
    <2>11. CASE \E r \in Request : Asks(r) \/ Reads(r) \/ Writes(r) \/ Crash(r)
      BY <2>1, <2>4, <2>5, <2>11
    <2> QED BY <2>8, <2>9, <2>10, <2>11, Statements
  <1>2. ASSUME NEW r \in Request, Writes(r) PROVE OneAtATime' /\ VisitStep
    <2>1. PICK q, c : q = request[r] /\ c = request'[r]
      OBVIOUS
    <2>2. OthersIdle(r) /\ request' = [request EXCEPT ![r] = c]
      BY <1>0, <1>2, <2>1, StepsAlone, StepsOwn
    <2>3. Timely(q)
      BY <2>1 DEF OneAtATime
    <2>4. VisitsSound' /\ VisitStep /\ Timely(c)'
      BY <1>0, <1>2, <2>1, <2>3, WritesAlone
    <2> QED BY <1>0, <2>2, <2>4, AloneGoesOn
  <1>3. ASSUME NEW r \in Request, Asks(r) \/ Reads(r) \/ Crash(r)
        PROVE  UNCHANGED <<movement, event, exception>>
    BY <1>3, Asked, Read, Died DEF rows
  <1> QED BY <1>1, <1>2, <1>3, Statements, Outside DEF vars, rows

\* Nothing has been read yet, and no visit has begun.
LEMMA InitAlone == Init => OneAtATime /\ Lifecycle!Init
  <1> SUFFICES ASSUME Init PROVE OneAtATime /\ Lifecycle!Init
    OBVIOUS
  <1>1. \A e \in Event : VisitSound(e)
    BY DEF Init, VisitSound, NoEvent, PastIdentity
  <1>2. OneOpenEventPerMovement /\ UnderWayMeansEntered
    BY DEF Init, OneOpenEventPerMovement, UnderWayMeansEntered, Open, NoEvent, NoMovement
  <1>3. \A r \in Request : request[r] = Idle
    BY DEF Init
  <1>4. Lifecycle!Init
    BY DEF Init, Lifecycle!Init, NoEvent, NoMovement
  <1> QED BY <1>1, <1>2, <1>3, <1>4, IdleTimely DEF OneAtATime, Alone, VisitsSound

LEMMA AlwaysOneAtATime == Serial => (Spec => [](Inductive /\ OneAtATime))
  <1> SUFFICES ASSUME Serial PROVE Spec => [](Inductive /\ OneAtATime)
    OBVIOUS
  <1>1. Init => OneAtATime
    BY InitAlone
  <1>2. Inductive /\ OneAtATime /\ [Next]_vars => OneAtATime'
    BY NextAlone
  <1> QED BY <1>1, <1>2, AlwaysInductive, PTL DEF Spec

\* startGateEvent, served one request at a time: a movement has one open gate event at most.
\* (Two starts that overlap break it: the run two_starts.)
THEOREM OpenEventsAreSingle == Serial => (Spec => []OneOpenEventPerMovement)
  <1>1. Inductive /\ OneAtATime => OneOpenEventPerMovement
    BY DEF OneAtATime, VisitsSound
  <1> QED BY <1>1, AlwaysOneAtATime, PTL

\* clearGateEvent and startMovement: a movement is under way only after a cleared entry,
\* on the approval of somebody else than its requester.
THEOREM UnderWayAfterEntry == Serial => (Spec => []UnderWayMeansEntered)
  <1>1. Inductive /\ OneAtATime => UnderWayMeansEntered
    BY DEF OneAtATime, VisitsSound
  <1> QED BY <1>1, AlwaysOneAtATime, PTL

\* The identity gate: past the identity check there is a verified driver or an exception.
THEOREM IdentitiesAreSettled == Serial => (Spec => []IdentityOrException)
  <1>1. Inductive /\ OneAtATime => IdentityOrException
    BY DEF OneAtATime, VisitsSound, VisitSound, Identified, PastIdentity, IdentityOrException
  <1> QED BY <1>1, AlwaysOneAtATime, PTL

\* clearGateEvent's second look at the vehicle: none that is locked out is ever cleared,
\* for the fleet does not change between the look and the update.
THEOREM LockedVehiclesStay == Serial => (Spec => LockedVehicleNotCleared)
  <1> SUFFICES ASSUME Serial PROVE Spec => LockedVehicleNotCleared
    OBVIOUS
  <1>1. Inductive /\ OneAtATime /\ [Next]_vars =>
          [\A e \in Event : event[e].status # "CLEARED" /\ event'[e].status = "CLEARED"
             => "vehicle" \in available[event[e].movement]]_vars
    BY NextAlone DEF VisitStep
  <1> QED BY <1>1, AlwaysOneAtATime, PTL DEF Spec, LockedVehicleNotCleared

\* Every statement of every handler, run one request at a time, is a step of the lifecycle
\* of visits or none, wherever requests die.
THEOREM LifecycleIsKept == Serial => (Spec => ImplementsLifecycle)
  <1> SUFFICES ASSUME Serial PROVE Spec => ImplementsLifecycle
    OBVIOUS
  <1>1. Init => Lifecycle!Init
    BY InitAlone
  <1>2. Inductive /\ OneAtATime /\ [Next]_vars => [Lifecycle!Next]_(Lifecycle!vars)
    BY NextAlone DEF VisitStep
  <1> QED BY <1>1, <1>2, AlwaysOneAtATime, PTL DEF Spec, ImplementsLifecycle, Lifecycle!Spec

-------------------------------------------------------------------------------
(* Journeys.                                                               *)

\* The cleared legs of every movement are those they were.
LegsStay ==
  \A e \in Event :
    /\ ClearedLeg(e)' <=> ClearedLeg(e)
    /\ ClearedLeg(e) => /\ event'[e].movement = event[e].movement
                        /\ event'[e].direction = event[e].direction

\* Only the completion of a visit makes a leg.
LEMMA LegsKept ==
  ASSUME Inductive, VisitsSound, NEW r \in Request, Writes(r), Timely(request[r]),
         ~(WriteTransition(r) /\ request[r].to = "COMPLETED")
  PROVE  LegsStay /\ UNCHANGED earlier
  <1>0. TypeOK /\ request[r] \in RequestRow /\ WellFormed(request[r])
    BY InFlight DEF Inductive
  <1>1. PICK q : q = request[r]
    OBVIOUS
  <1>2. CASE UNCHANGED <<event, earlier>>
    BY <1>2 DEF LegsStay, ClearedLeg
  <1>3. CASE InsertGateEvent(r)
    <2>1. ASSUME NEW e \in Event, event[e] = NoEvent, NEW row, row.status = "EXPECTED",
                 event' = [event EXCEPT ![e] = row]
          PROVE  LegsStay
      <3>1. event'[e] = row /\ \A f \in Event \ {e} : event'[f] = event[f]
        BY <1>0, <2>1 DEF TypeOK, RowsTypeOK
      <3>2. event[e].status = "NONE"
        BY <2>1 DEF NoEvent
      <3> QED BY <2>1, <3>1, <3>2 DEF LegsStay, ClearedLeg
    <2>2. UNCHANGED earlier
      BY <1>3 DEF InsertGateEvent
    <2> QED BY <1>2, <1>3, <2>1, <2>2 DEF InsertGateEvent, Exists, NoEvent
  <1>4. CASE RecordIdentity(r) \/ WriteItem(r)
    BY <1>0, <1>4 DEF RecordIdentity, WriteItem, LegsStay, ClearedLeg, TypeOK, RowsTypeOK, EventRow
  <1>5. CASE WriteTransition(r) /\ q.to # "COMPLETED"
    <2>1. PICK e \in Event : e = q.event
      BY <1>0, <1>1, <1>5 DEF WriteTransition, WellFormed
    <2>2. PICK row : row = [event[e] EXCEPT !.status = q.to,
                              !.decision = DecisionAfter(q.to, event[e].decision)]
      OBVIOUS
    <2>3. event'[e] = row /\ \A f \in Event \ {e} : event'[f] = event[f]
      BY <1>0, <1>1, <1>5, <2>1, <2>2 DEF WriteTransition, TypeOK, RowsTypeOK
    <2>4. row.status = q.to
      BY <1>0, <2>2 DEF TypeOK, RowsTypeOK, EventRow
    <2>5. event[e].status # "COMPLETED"
      BY <1>1, <1>5, <2>1, VisitTransitions DEF WriteTransition, Timely, TimelyMove, ClosedStatus
    <2>6. UNCHANGED earlier
      BY <1>1, <1>5 DEF WriteTransition
    <2> QED BY <1>5, <2>3, <2>4, <2>5, <2>6 DEF LegsStay, ClearedLeg
  <1> QED BY <1>1, <1>2, <1>3, <1>4, <1>5 DEF Writes, InsertMovement, WriteMovement,
             InsertAttempt, InsertFallback, WriteFallback, InsertException, WriteResolution,
             InsertPair, RaiseDiscrepancy, others

\* What the completion of a visit does: it may be a leg now, and is later than all others.
Completes(e) ==
  /\ event[e].status # "COMPLETED" /\ event'[e].status = "COMPLETED"
  /\ event'[e].movement = event[e].movement /\ event'[e].direction = event[e].direction
  /\ event'[e].decision = event[e].decision
  /\ \A f \in Event \ {e} : event'[f] = event[f]
  /\ earlier' = [f \in Event |-> IF f = e
                   THEN {g \in Event \ {f} : event[g].status = "COMPLETED"}
                   ELSE earlier[f] \ {e}]

LEMMA CompletionCompletes ==
  ASSUME Inductive, VisitsSound, NEW r \in Request, WriteTransition(r), NEW q, q = request[r],
         Timely(q), q.to = "COMPLETED"
  PROVE  q.event \in Event /\ Completes(q.event)
  <1>0. TypeOK /\ q \in RequestRow /\ WellFormed(q)
    BY InFlight DEF Inductive
  <1>1. PICK e \in Event : e = q.event
    BY <1>0 DEF WriteTransition, WellFormed
  <1>2. PICK row : row = [event[e] EXCEPT !.status = "COMPLETED", !.decision = event[e].decision]
    OBVIOUS
  <1>3. event'[e] = row /\ \A f \in Event \ {e} : event'[f] = event[f]
    BY <1>0, <1>1, <1>2 DEF WriteTransition, DecisionAfter, TypeOK, RowsTypeOK
  <1>4. /\ row.status = "COMPLETED" /\ row.movement = event[e].movement
        /\ row.direction = event[e].direction /\ row.decision = event[e].decision
    BY <1>0, <1>2 DEF TypeOK, RowsTypeOK, EventRow
  <1>5. event[e].status # "COMPLETED"
    BY <1>1, VisitTransitions DEF WriteTransition, Timely, TimelyMove, ClosedStatus
  <1>6. earlier' = [f \in Event |-> IF f = e
                      THEN {g \in Event \ {f} : event[g].status = "COMPLETED"}
                      ELSE earlier[f] \ {e}]
    BY <1>1 DEF WriteTransition
  <1> QED BY <1>1, <1>3, <1>4, <1>5, <1>6 DEF Completes

\* The first of some legs stays the first when another one joins them; the first leg of
\* all is the first.
LEMMA FirstStays ==
  ASSUME NEW e \in Event, Completes(e), NEW S \in SUBSET (Event \ {e}),
         \A f \in S : event[f].status = "COMPLETED",
         S # {} => \E d \in Event : FirstOf(d, S),
         NEW T, T = S \/ T = S \cup {e}, T # {}
  PROVE  \E d \in Event : FirstOf(d, T)'
  <1>1. CASE S = {}
    BY <1>1 DEF FirstOf
  <1>2. CASE S # {}
    <2>1. PICK d \in Event : FirstOf(d, S)
      BY <1>2
    <2>2. d \in S /\ d # e /\ d \in earlier'[e]
      BY <2>1 DEF FirstOf, Completes
    <2>3. \A t \in S \ {d} : d \in earlier'[t]
      BY <2>1, <2>2 DEF FirstOf, Completes
    <2> QED BY <2>2, <2>3 DEF FirstOf
  <1> QED BY <1>1, <1>2

LEMMA CompletedFirstLegs ==
  ASSUME FirstLegs, NEW e \in Event, Completes(e)
  PROVE  FirstLegs'
  <1> SUFFICES ASSUME NEW m \in Movement
               PROVE  /\ Legs(m)' # {} => \E d \in Event : FirstOf(d, Legs(m))'
                      /\ \A w \in Direction :
                           Way(m, w)' # {} => \E d \in Event : FirstOf(d, Way(m, w))'
    BY DEF FirstLegs, FirstOf, Way, Legs, ClearedLeg
  <1>1. Legs(m)' # {} => \E d \in Event : FirstOf(d, Legs(m))'
    <2>1. PICK S, T : S = Legs(m) /\ T = Legs(m)'
      OBVIOUS
    <2>2. S \in SUBSET (Event \ {e}) /\ \A f \in S : event[f].status = "COMPLETED"
      BY <2>1 DEF Legs, ClearedLeg, Completes
    <2>3. T = S \/ T = S \cup {e}
      BY <2>1 DEF Legs, ClearedLeg, Completes
    <2>4. S # {} => \E d \in Event : FirstOf(d, S)
      BY <2>1 DEF FirstLegs
    <2>5. T # {} => \E d \in Event : FirstOf(d, T)'
      BY <2>2, <2>3, <2>4, FirstStays
    <2> QED BY <2>1, <2>5 DEF FirstOf
  <1>2. ASSUME NEW w \in Direction
        PROVE  Way(m, w)' # {} => \E d \in Event : FirstOf(d, Way(m, w))'
    <2>1. PICK S, T : S = Way(m, w) /\ T = Way(m, w)'
      OBVIOUS
    <2>2. S \in SUBSET (Event \ {e}) /\ \A f \in S : event[f].status = "COMPLETED"
      BY <2>1 DEF Way, Legs, ClearedLeg, Completes
    <2>3. T = S \/ T = S \cup {e}
      BY <2>1 DEF Way, Legs, ClearedLeg, Completes
    <2>4. S # {} => \E d \in Event : FirstOf(d, S)
      BY <2>1 DEF FirstLegs
    <2>5. T # {} => \E d \in Event : FirstOf(d, T)'
      BY <2>2, <2>3, <2>4, FirstStays
    <2> QED BY <2>1, <2>5 DEF FirstOf
  <1> QED BY <1>1, <1>2

LEMMA SameFirstLegs ==
  ASSUME FirstLegs, LegsStay, UNCHANGED earlier
  PROVE  FirstLegs'
  <1> SUFFICES ASSUME NEW m \in Movement
               PROVE  /\ Legs(m)' # {} => \E d \in Event : FirstOf(d, Legs(m))'
                      /\ \A w \in Direction :
                           Way(m, w)' # {} => \E d \in Event : FirstOf(d, Way(m, w))'
    BY DEF FirstLegs
  <1>1. Legs(m)' = Legs(m)
    BY DEF Legs, LegsStay
  <1>2. \A w \in Direction : Way(m, w)' = Way(m, w)
    BY <1>1 DEF Way, Legs, LegsStay
  <1> QED BY <1>1, <1>2 DEF FirstLegs, FirstOf

\* Two legs of m go opposite ways.
Opposed(m) == \E d, t \in Legs(m) : event[d].direction # event[t].direction

\* resolveCandidatePair finds them.
LEMMA OpposedArePaired ==
  ASSUME VisitsSound, FirstLegs, NEW m \in Movement, Opposed(m)
  PROVE  \E d, t \in Event : CandidatePair(m, d, t)
  <1>1. PICK d \in Event : FirstOf(d, Legs(m))
    BY DEF FirstLegs, Opposed
  <1>2. \A e \in Legs(m) : e \in Event /\ event[e].direction \in Direction
    BY DEF Legs, ClearedLeg, VisitsSound, VisitSound, NoEvent
  <1>3. d \in Legs(m)
    BY <1>1 DEF FirstOf
  <1>4. PICK w \in Direction : w # event[d].direction
    BY DEF Direction
  <1>5. OppositeLegs(m, d) = Way(m, w)
    BY <1>2, <1>3, <1>4 DEF OppositeLegs, Way, Direction
  <1>6. OppositeLegs(m, d) # {}
    BY DEF OppositeLegs, Opposed
  <1>7. PICK t \in Event : FirstOf(t, OppositeLegs(m, d))
    BY <1>5, <1>6 DEF FirstLegs
  <1> QED BY <1>1, <1>7 DEF CandidatePair

\* Each place on the way to the pair belongs to one statement.
LEMMA WhichStatement ==
  ASSUME NEW r \in Request, Reads(r) \/ Writes(r), NEW q, q = request[r]
  PROVE  /\ q.at = "readMovement" => ReadMovement(r)
         /\ q.at = "checkMovement" => StartOrCompleteMovement(r)
         /\ q.at = "writeMovement" => WriteMovement(r)
         /\ q.at = "findPair" => FindPair(r)
         /\ q.at = "insertPair" => InsertPair(r)
  <1>1. CASE Reads(r)
    BY <1>1 DEF Reads, ReadAuthorisation, ReadFleet, CheckTransition, ReadPending, CountAttempts,
           FindFallback, ReadFallback, ReadRaisingEvent, ReadMovement, StartOrCompleteMovement,
           FindPair
  <1>2. CASE Writes(r)
    BY <1>2 DEF Writes, InsertMovement, InsertGateEvent, WriteTransition,
           InsertAttempt, RecordIdentity, InsertFallback, WriteFallback, WriteItem,
           InsertException, WriteResolution, RaiseDiscrepancy, WriteMovement, InsertPair
  <1> QED BY <1>1, <1>2

\* The request that is to pair the legs goes on, until it does.
LEMMA PairingGoesOn ==
  ASSUME Inductive, VisitsSound, FirstLegs, NEW r \in Request, Reads(r) \/ Writes(r),
         NEW q, q = request[r], Timely(q), NEW c, c = request'[r],
         NEW m \in Movement, Opposed(m), reconciliation[m] = NoPair, PairsSoon(q, m)
  PROVE  PairsSoon(c, m) \/ reconciliation'[m] # NoPair
  <1>0. TypeOK /\ q \in RequestRow /\ WellFormed(q) /\ Sound(q) /\ q.movement = m
    BY InFlight DEF Inductive, PairsSoon
  <1>1. CASE q.at = "readMovement" /\ q.op = "complete"
    <2>1. ReadMovement(r)
      BY <1>1, WhichStatement
    <2>2. c = [q EXCEPT !.at = "checkMovement"] \/ c = [q EXCEPT !.at = "findPair"]
      BY <1>0, <1>1, <2>1 DEF ReadMovement, TypeOK
    <2> QED BY <1>0, <1>1, <2>2 DEF PairsSoon, RequestRow
  <1>2. CASE q.at = "checkMovement" /\ q.op = "complete"
    <2>1. StartOrCompleteMovement(r)
      BY <1>2, WhichStatement
    <2>2. <<movement[q.movement].status, q.to>> \in MovementTransitions
      BY <1>2 DEF Timely, TimelyMovement, MovementTransitions
    <2>3. c = [q EXCEPT !.at = "writeMovement"]
      BY <1>0, <2>1, <2>2 DEF StartOrCompleteMovement, Continue, TypeOK
    <2> QED BY <1>0, <1>2, <2>3 DEF PairsSoon, RequestRow
  <1>3. CASE q.at = "writeMovement" /\ q.op = "complete"
    <2>1. WriteMovement(r)
      BY <1>3, WhichStatement
    <2>2. c = [q EXCEPT !.at = "findPair"]
      BY <1>0, <1>3, <2>1 DEF WriteMovement, Continue, TypeOK
    <2> QED BY <1>0, <1>3, <2>2 DEF PairsSoon, RequestRow
  <1>4. CASE q.at = "findPair"
    <2>1. FindPair(r)
      BY <1>4, WhichStatement
    <2>2. \E d, t \in Event : CandidatePair(m, d, t)
      BY OpposedArePaired
    <2>3. PICK d, t \in Event : request' = [request EXCEPT ![r] =
                                  [q EXCEPT !.at = "insertPair", !.event = d, !.row = t]]
      BY <1>0, <2>1, <2>2 DEF FindPair, TypeOK
    <2>4. c = [q EXCEPT !.at = "insertPair", !.event = d, !.row = t]
      BY <1>0, <2>3 DEF TypeOK
    <2> QED BY <1>0, <2>4 DEF PairsSoon, RequestRow
  <1>5. CASE q.at = "insertPair"
    <2>1. InsertPair(r)
      BY <1>5, WhichStatement
    <2>2. reconciliation' = [reconciliation EXCEPT ![m] =
            [departure |-> q.event, return |-> q.row]]
      BY <1>0, <2>1 DEF InsertPair
    <2>3. reconciliation'[m] = [departure |-> q.event, return |-> q.row]
      BY <1>0, <2>2 DEF TypeOK, RowsTypeOK
    <2>4. q.event # None
      BY <1>0, <1>5, NoneAssumption DEF WellFormed, Identifier
    <2> QED BY <2>3, <2>4 DEF NoPair
  <1> QED BY <1>1, <1>2, <1>3, <1>4, <1>5 DEF PairsSoon

\* The completion that makes the second leg is to pair it.
LEMMA PairingBegins ==
  ASSUME Inductive, VisitsSound, NEW r \in Request, WriteTransition(r),
         NEW q, q = request[r], Timely(q), q.to = "COMPLETED", NEW c, c = request'[r],
         NEW m \in Movement, q.event \in Legs(m)'
  PROVE  PairsSoon(c, m)
  <1>0. TypeOK /\ q \in RequestRow /\ WellFormed(q)
    BY InFlight DEF Inductive
  <1>1. Completes(q.event) /\ q.event \in Event
    BY CompletionCompletes
  <1>2. event[q.event].decision = "CLEARED" /\ event[q.event].movement = m
    BY <1>1 DEF Completes, Legs, ClearedLeg
  <1>3. q.op = "complete" /\ q.seen = "CLEARED"
    BY <1>2 DEF WriteTransition, Timely, TimelyMove
  <1>4. PICK to : to = IF Enters(q) THEN "IN_PROGRESS" ELSE "COMPLETED"
    OBVIOUS
  <1>5. \/ c = [q EXCEPT !.at = "readMovement", !.movement = m, !.to = to]
        \/ c = [q EXCEPT !.at = "findPair", !.movement = m]
    <2>1. CASE Enters(q) \/ Leaves(q)
      BY <1>0, <1>2, <1>4, <2>1 DEF WriteTransition, TypeOK
    <2>2. CASE ~(Enters(q) \/ Leaves(q))
      BY <1>0, <1>2, <1>3, <2>2 DEF WriteTransition, Pairs, TypeOK
    <2> QED BY <2>1, <2>2
  <1> QED BY <1>0, <1>3, <1>5 DEF PairsSoon, RequestRow

\* A pair is never replaced, nor taken back.
LEMMA PairKept ==
  ASSUME Inductive, NEW r \in Request, Writes(r), NEW m \in Movement,
         reconciliation[m] # NoPair
  PROVE  reconciliation'[m] = reconciliation[m]
  <1>1. CASE InsertPair(r)
    <2>1. PICK q : q = request[r]
      OBVIOUS
    <2>2. reconciliation' = [reconciliation EXCEPT ![q.movement] =
            IF reconciliation[q.movement] = NoPair
            THEN [departure |-> q.event, return |-> q.row] ELSE reconciliation[q.movement]]
      BY <1>1, <2>1 DEF InsertPair
    <2> QED BY <2>2 DEF Inductive, TypeOK, RowsTypeOK
  <1>2. CASE UNCHANGED reconciliation
    BY <1>2
  <1> QED BY <1>1, <1>2 DEF Writes, InsertMovement, WriteMovement,
             InsertGateEvent, WriteTransition, InsertAttempt, RecordIdentity, InsertFallback,
             WriteFallback, WriteItem, InsertException, WriteResolution, RaiseDiscrepancy, others

LEMMA NextPairs ==
  ASSUME Serial, Inductive, OneAtATime, FirstLegs, PairedInTime, Living \/ UNCHANGED vars
  PROVE  FirstLegs' /\ PairedInTime'
  <1>0. TypeOK /\ VisitsSound /\ Alone
    BY DEF Inductive, OneAtATime
  <1>1. CASE UNCHANGED <<event, earlier, reconciliation, request>>
    <2>1. LegsStay
      BY <1>1 DEF LegsStay, ClearedLeg
    <2>2. PairedInTime'
      BY <1>1 DEF PairedInTime, Legs, ClearedLeg
    <2> QED BY <1>1, <2>1, <2>2, SameFirstLegs
  <1>2. ASSUME NEW r \in Request, Asks(r) \/ Reads(r) \/ Writes(r)
        PROVE  FirstLegs' /\ PairedInTime'
    <2>1. PICK q, c : q = request[r] /\ c = request'[r]
      OBVIOUS
    <2>2. Timely(q)
      BY <2>1 DEF OneAtATime
    <2>3. request' = [request EXCEPT ![r] = c]
      BY <1>2, <2>1, StepsOwn
    <2>4. CASE WriteTransition(r) /\ q.to = "COMPLETED"
      <3>1. q.event \in Event /\ Completes(q.event)
        BY <1>0, <2>1, <2>2, <2>4, CompletionCompletes
      <3>2. FirstLegs'
        BY <3>1, CompletedFirstLegs
      <3>3. UNCHANGED reconciliation
        BY <2>4 DEF WriteTransition
      <3>4. ASSUME NEW m \in Movement, Opposed(m)', reconciliation'[m] = NoPair
            PROVE  \E s \in Request : PairsSoon(request'[s], m)
        <4>1. CASE q.event \in Legs(m)'
          <5>1. PairsSoon(c, m)
            BY <1>0, <2>1, <2>2, <2>4, <4>1, PairingBegins
          <5> QED BY <2>1, <5>1
        <4>2. CASE q.event \notin Legs(m)'
          <5>1. Opposed(m)
            BY <3>1, <3>4, <4>2 DEF Opposed, Legs, ClearedLeg, Completes
          <5>2. PICK s \in Request : PairsSoon(request[s], m)
            BY <3>3, <3>4, <5>1 DEF PairedInTime, Opposed
          <5>3. s = r
            BY <1>0, <2>1, <2>4, <5>2 DEF Alone, PairsSoon, WriteTransition, Idle
          <5> QED BY <2>4, <5>2, <5>3 DEF PairsSoon, WriteTransition
        <4> QED BY <4>1, <4>2
      <3>5. PairedInTime'
        BY <3>4 DEF PairedInTime, Opposed, PairsSoon
      <3> QED BY <3>2, <3>5
    <2>5. CASE ~(WriteTransition(r) /\ q.to = "COMPLETED")
      <3>1. LegsStay /\ UNCHANGED earlier
        <4>1. CASE Writes(r)
          BY <1>0, <2>1, <2>2, <2>5, <4>1, LegsKept
        <4>2. CASE Asks(r) \/ Reads(r)
          BY <4>2, Asked, Read DEF rows, LegsStay, ClearedLeg
        <4> QED BY <1>2, <4>1, <4>2
      <3>2. FirstLegs'
        BY <3>1, SameFirstLegs
      <3>3. ASSUME NEW m \in Movement, Opposed(m)', reconciliation'[m] = NoPair
            PROVE  \E s \in Request : PairsSoon(request'[s], m)
        <4>1. Opposed(m)
          BY <3>1, <3>3 DEF Opposed, Legs, LegsStay
        <4>2. reconciliation[m] = NoPair
          BY <1>2, <3>3, PairKept, Asked, Read DEF rows
        <4>3. PICK s \in Request : PairsSoon(request[s], m)
          BY <4>1, <4>2 DEF PairedInTime, Opposed
        <4>4. OthersIdle(r)
          BY <1>0, <1>2, StepsAlone
        <4>5. s = r /\ ~Asks(r)
          BY <4>3, <4>4, Asked DEF OthersIdle, PairsSoon, Idle
        <4>6. PairsSoon(c, m)
          BY <1>0, <1>2, <2>1, <2>2, <3>3, <4>1, <4>2, <4>3, <4>5, PairingGoesOn
        <4> QED BY <2>1, <4>6
      <3>4. PairedInTime'
        BY <3>3 DEF PairedInTime, Opposed, PairsSoon
      <3> QED BY <3>2, <3>4
    <2> QED BY <2>4, <2>5
  <1> QED BY <1>1, <1>2, LivingStatements, Outside DEF vars, rows

\* completeGateEvent: the visit that completes the second leg of a journey has its
\* reconciliation built before the request returns, if requests are served one at a time
\* and none dies between the completion and the pairing.
THEOREM JourneysArePairedInTime == Serial /\ ~MayCrash => (Spec => []JourneyIsPaired)
  <1> SUFFICES ASSUME Serial, ~MayCrash PROVE Spec => []JourneyIsPaired
    OBVIOUS
  <1>1. Init => FirstLegs /\ PairedInTime
    <2>1. Init => \A m \in Movement : Legs(m) = {}
      BY DEF Init, Legs, ClearedLeg, NoEvent
    <2> QED BY <2>1 DEF FirstLegs, PairedInTime, Way
  <1>2. Inductive /\ OneAtATime /\ FirstLegs /\ PairedInTime /\ [Next]_vars
          => FirstLegs' /\ PairedInTime'
    BY NextPairs DEF Next, Living, Crash
  <1>3. PairedInTime => JourneyIsPaired
    BY DEF PairedInTime, JourneyIsPaired, Quiescent, PairsSoon, Idle
  <1> QED BY <1>1, <1>2, <1>3, AlwaysOneAtATime, PTL DEF Spec

-------------------------------------------------------------------------------
(* What requests served one at a time leave as it is for good: a decision, *)
(* the exceptions of a completed visit, a pair - and a movement that the   *)
(* gate has let in, for no visit is left that could let it out.            *)

\* Between the completion of a way out and the read of its movement the movement is not
\* under way, so no request goes on to complete it; an exception still waits for the
\* resolution that has found it waiting.
Settling(q) ==
  /\ q.at = "readMovement" /\ q.to = "COMPLETED" =>
       q.op # "clear" /\ movement[q.movement].status # "IN_PROGRESS"
  /\ q.at \in {"checkMovement", "writeMovement"} => q.to # "COMPLETED"
  /\ q.at = "writeResolution" => Waits(q.row)

\* The vehicle is let in by the one visit that is open, so a movement under way has no
\* open visit in the other direction, and startGateEvent starts none.
RowsSettled ==
  /\ \A m \in Movement :
       /\ movement[m].status # "COMPLETED"
       /\ movement[m].status = "IN_PROGRESS" =>
            \A e \in Event : Open(e) /\ event[e].movement = m => event[e].direction = "ENTRY"
  /\ \A e \in Event : event[e].decision # "NONE" =>
       event[e].status \in {"CLEARED", "DENIED", "COMPLETED"}

Settled == RowsSettled /\ \A r \in Request : Settling(request[r])

SettledStays ==
  /\ \A x \in Exception :
       exception[x] # NoException /\ event[exception[x].event].status = "COMPLETED"
         => exception'[x] = exception[x]
  /\ \A e \in Event : event[e].decision # "NONE" => event'[e].decision = event[e].decision

\* Rows whose statuses stay are as settled as before.
LEMMA SettledRowsKept ==
  ASSUME RowsSettled, UNCHANGED <<movement, exception>>,
         \A e \in Event : /\ event'[e].status = event[e].status
                          /\ event'[e].movement = event[e].movement
                          /\ event'[e].direction = event[e].direction
                          /\ event'[e].decision = event[e].decision
  PROVE  RowsSettled' /\ SettledStays
  BY DEF RowsSettled, SettledStays, Open

\* A movement that is under way now was let in by the only open visit.
LEMMA WriteMovementSettles ==
  ASSUME Inductive, VisitsSound, RowsSettled, NEW r \in Request, WriteMovement(r),
         NEW q, q = request[r], Timely(q), Settling(q)
  PROVE  RowsSettled' /\ SettledStays
  <1>0. q \in RequestRow /\ WellFormed(q) /\ TypeOK /\ q.at = "writeMovement"
    BY InFlight DEF Inductive, WriteMovement
  <1>1. UNCHANGED <<event, exception>>
    BY DEF WriteMovement, others
  <1>2. PICK m \in Movement : m = q.movement
    BY <1>0 DEF Timely, TimelyMovement
  <1>3. PICK row : row = [movement[m] EXCEPT !.status = q.to,
                            !.approver = IF q.to \in {"APPROVED", "REJECTED"}
                                         THEN q.user ELSE movement[m].approver]
    OBVIOUS
  <1>4. movement'[m] = row /\ \A n \in Movement \ {m} : movement'[n] = movement[n]
    BY <1>0, <1>2, <1>3 DEF WriteMovement, TypeOK, RowsTypeOK
  <1>5. row.status = q.to /\ q.to # "COMPLETED"
    BY <1>0, <1>2, <1>3 DEF TypeOK, RowsTypeOK, MovementRow, Settling
  <1>6. ASSUME q.to = "IN_PROGRESS", NEW e \in Event, Open(e), event[e].movement = m
        PROVE  event[e].direction = "ENTRY"
    <2>1. PICK f \in Event : /\ event[f].movement = m /\ event[f].direction = "ENTRY"
                             /\ event[f].status = "CLEARED"
      BY <1>0, <1>2, <1>6 DEF Timely, TimelyMovement, Went
    <2>2. e = f
      BY <1>6, <2>1 DEF VisitsSound, OneOpenEventPerMovement, Open, ClosedStatus
    <2> QED BY <2>1, <2>2
  <1>7. RowsSettled'
    BY <1>1, <1>4, <1>5, <1>6 DEF RowsSettled, Open
  <1> QED BY <1>1, <1>7 DEF SettledStays

\* createMovement's insert is a DRAFT.
LEMMA InsertMovementSettles ==
  ASSUME Inductive, RowsSettled, NEW r \in Request, InsertMovement(r)
  PROVE  RowsSettled' /\ SettledStays
  <1>1. UNCHANGED <<event, exception>>
    BY DEF InsertMovement, others
  <1>2. \A m \in Movement : movement'[m].status \in {movement[m].status, "DRAFT"}
    BY DEF InsertMovement, Inductive, TypeOK, RowsTypeOK, NoMovement
  <1> QED BY <1>1, <1>2 DEF RowsSettled, SettledStays, Open

\* startGateEvent's insert is a visit of an APPROVED movement.
LEMMA InsertGateEventSettles ==
  ASSUME Inductive, RowsSettled, NEW r \in Request, InsertGateEvent(r),
         NEW q, q = request[r], Timely(q)
  PROVE  RowsSettled' /\ SettledStays
  <1>0. TypeOK /\ q.at = "insertEvent" /\ UNCHANGED <<movement, exception>>
    BY DEF Inductive, InsertGateEvent
  <1>1. CASE UNCHANGED event
    BY <1>0, <1>1, SettledRowsKept
  <1>2. ASSUME NEW e \in Event, event[e] = NoEvent, NEW row,
               row = [NoEvent EXCEPT !.status = "EXPECTED", !.movement = q.movement,
                                     !.direction = q.arg],
               event' = [event EXCEPT ![e] = row]
        PROVE  RowsSettled' /\ SettledStays
    <2>1. row.movement = q.movement /\ row.decision = "NONE" /\ row.status = "EXPECTED"
      BY <1>2 DEF NoEvent
    <2>2. event'[e] = row /\ \A f \in Event \ {e} : event'[f] = event[f]
      BY <1>0, <1>2 DEF TypeOK, RowsTypeOK
    <2>3. q.movement \in Movement /\ movement[q.movement].status = "APPROVED"
      BY <1>0 DEF Timely, TimelyVisit
    <2>4. RowsSettled'
      BY <1>0, <2>1, <2>2, <2>3 DEF RowsSettled, Open
    <2>5. SettledStays
      BY <1>0, <1>2, <2>2 DEF SettledStays, NoEvent
    <2> QED BY <2>4, <2>5
  <1> QED BY <1>0, <1>1, <1>2 DEF InsertGateEvent, Exists

\* transitionGateEvent's update decides a visit that was not decided, and opens none; the
\* way out that it completes is not one of a movement under way.
LEMMA WriteTransitionSettles ==
  ASSUME Inductive, VisitsSound, RowsSettled, NEW r \in Request, WriteTransition(r),
         NEW q, q = request[r], Timely(q), NEW c, c = request'[r]
  PROVE  /\ RowsSettled' /\ SettledStays
         /\ c.at = "readMovement" /\ c.to = "COMPLETED" =>
              c.op # "clear" /\ movement'[c.movement].status # "IN_PROGRESS"
  <1>0. q \in RequestRow /\ WellFormed(q) /\ TypeOK /\ q.at = "writeEvent"
    BY InFlight DEF Inductive, WriteTransition
  <1>1. UNCHANGED <<movement, exception>>
    BY DEF WriteTransition
  <1>2. PICK e \in Event : e = q.event
    BY <1>0 DEF WellFormed
  <1>3. PICK row : row = [event[e] EXCEPT !.status = q.to,
                            !.decision = DecisionAfter(q.to, event[e].decision)]
    OBVIOUS
  <1>4. event'[e] = row /\ \A f \in Event \ {e} : event'[f] = event[f]
    BY <1>0, <1>2, <1>3 DEF WriteTransition, TypeOK, RowsTypeOK
  <1>5. /\ row.status = q.to /\ row.movement = event[e].movement
        /\ row.direction = event[e].direction
        /\ row.decision = DecisionAfter(q.to, event[e].decision)
    BY <1>0, <1>2, <1>3 DEF TypeOK, RowsTypeOK, EventRow
  <1>6. <<event[e].status, q.to>> \in GateEventTransitions
    BY <1>0, <1>2 DEF Timely, TimelyMove
  <1>7. /\ event[e].status \notin ClosedStatus \cup {"NONE"}
        /\ q.to = "COMPLETED" <=> event[e].status \in {"CLEARED", "DENIED"}
    BY <1>6, VisitTransitions
  <1>8. event[e].decision # "NONE" => q.to = "COMPLETED"
    BY <1>7 DEF RowsSettled, ClosedStatus
  <1>9. RowsSettled'
    BY <1>1, <1>4, <1>5, <1>7, <1>8 DEF RowsSettled, Open, DecisionAfter
  <1>10. SettledStays
    BY <1>1, <1>4, <1>5, <1>8 DEF SettledStays, DecisionAfter
  <1>11. ASSUME c.at = "readMovement", c.to = "COMPLETED"
         PROVE  c.op # "clear" /\ movement'[c.movement].status # "IN_PROGRESS"
    <2>1. PICK m, to : /\ m = event[e].movement
                       /\ to = IF Enters(q) THEN "IN_PROGRESS" ELSE "COMPLETED"
      OBVIOUS
    <2>2. \/ c = [q EXCEPT !.at = "readMovement", !.movement = m, !.to = to]
               /\ (Enters(q) \/ Leaves(q))
          \/ c = [q EXCEPT !.at = "findPair", !.movement = m]
          \/ c = Idle
      BY <1>0, <1>2, <2>1 DEF WriteTransition, TypeOK
    <2>3. c = [q EXCEPT !.at = "readMovement", !.movement = m, !.to = to] /\ (Enters(q) \/ Leaves(q))
      <3>1. c # Idle
        BY <1>11 DEF Idle
      <3>2. [q EXCEPT !.at = "findPair", !.movement = m].at = "findPair"
        BY <1>0 DEF RequestRow
      <3> QED BY <1>11, <2>2, <3>1, <3>2
    <2>4. Leaves(q) /\ c.op = "complete" /\ c.movement = m
      BY <1>0, <1>11, <2>1, <2>3 DEF RequestRow, Leaves, Pairs
    <2>5. event[e].direction = "EXIT" /\ Open(e)
      BY <1>2, <1>7, <2>4 DEF Leaves, Open
    <2>6. m \in Movement
      BY <1>7, <2>1 DEF VisitsSound, VisitSound, NoEvent
    <2> QED BY <1>1, <2>1, <2>4, <2>5, <2>6 DEF RowsSettled
  <1> QED BY <1>9, <1>10, <1>11

\* resolveException writes an exception that waits, so none of a completed visit.
LEMMA WriteResolutionSettles ==
  ASSUME Inductive, RowsSettled, NEW r \in Request, WriteResolution(r),
         NEW q, q = request[r], Settling(q)
  PROVE  RowsSettled' /\ SettledStays
  <1>0. TypeOK /\ q.at = "writeResolution" /\ UNCHANGED <<movement, event>>
    BY DEF Inductive, WriteResolution
  <1>1. Waits(q.row)
    BY <1>0 DEF Settling
  <1>2. \A x \in Exception : x # q.row => exception'[x] = exception[x]
    BY <1>0 DEF WriteResolution, TypeOK, RowsTypeOK
  <1>3. SettledStays
    BY <1>0, <1>1, <1>2 DEF SettledStays, Waits
  <1> QED BY <1>0, <1>3 DEF RowsSettled, Open

LEMMA WritesSettle ==
  ASSUME Inductive, VisitsSound, RowsSettled, NEW r \in Request, Writes(r),
         NEW q, q = request[r], Timely(q), Settling(q), NEW c, c = request'[r]
  PROVE  RowsSettled' /\ SettledStays /\ Settling(c)'
  <1>0. TypeOK
    BY DEF Inductive
  <1>1. RowsSettled' /\ SettledStays
    <2>1. CASE InsertException(r) \/ RaiseDiscrepancy(r)
      <3>1. UNCHANGED <<movement, event>>
        BY <2>1 DEF InsertException, RaiseDiscrepancy
      <3>2. \A x \in Exception : exception[x] # NoException => exception'[x] = exception[x]
        BY <1>0, <2>1 DEF InsertException, RaiseDiscrepancy, TypeOK, RowsTypeOK
      <3> QED BY <3>1, <3>2 DEF RowsSettled, SettledStays, Open
    <2>2. CASE RecordIdentity(r) \/ WriteItem(r)
      <3>1. UNCHANGED <<movement, exception>>
        BY <2>2 DEF RecordIdentity, WriteItem
      <3>2. \A e \in Event : /\ event'[e].status = event[e].status
                             /\ event'[e].movement = event[e].movement
                             /\ event'[e].direction = event[e].direction
                             /\ event'[e].decision = event[e].decision
        BY <1>0, <2>2 DEF RecordIdentity, WriteItem, TypeOK, RowsTypeOK, EventRow
      <3> QED BY <3>1, <3>2, SettledRowsKept
    <2>3. CASE InsertAttempt(r) \/ InsertFallback(r) \/ WriteFallback(r) \/ InsertPair(r)
      <3>1. UNCHANGED <<movement, exception, event>>
        BY <2>3 DEF InsertAttempt, InsertFallback, WriteFallback, InsertPair
      <3> QED BY <3>1, SettledRowsKept
    <2> QED BY <2>1, <2>2, <2>3, InsertMovementSettles, WriteMovementSettles,
               InsertGateEventSettles, WriteTransitionSettles, WriteResolutionSettles DEF Writes
  <1>2. /\ c.at \notin {"checkMovement", "writeMovement", "writeResolution"}
        /\ c.at = "readMovement" => WriteTransition(r)
    BY Wrote
  <1>3. c.at = "readMovement" /\ c.to = "COMPLETED" =>
          c.op # "clear" /\ movement'[c.movement].status # "IN_PROGRESS"
    BY <1>2, WriteTransitionSettles
  <1> QED BY <1>1, <1>2, <1>3 DEF Settling

\* A request that only reads goes on to no completion.
LEMMA ReadsSettle ==
  ASSUME Inductive, NEW r \in Request, Asks(r) \/ Reads(r) \/ Crash(r),
         NEW q, q = request[r], Timely(q), Settling(q), NEW c, c = request'[r]
  PROVE  Settling(c)
  <1>1. CASE Asks(r)
    BY <1>1, Asked DEF StartsWell, Later, Settling
  <1>2. CASE Reads(r)
    <2>1. /\ c.at \notin {"writeResolution", "readMovement"}
          /\ c.at = "checkMovement" => ReadMovement(r) /\ c.to = q.to
          /\ c.at = "writeMovement" => StartOrCompleteMovement(r) /\ c.to = q.to
      BY <1>2, Read DEF Reading
    <2>2. ASSUME c.at = "checkMovement" PROVE c.to # "COMPLETED"
      <3>1. ReadMovement(r) /\ q.at = "readMovement" /\ c.to = q.to
        BY <2>1, <2>2 DEF ReadMovement
      <3>2. c # Idle /\ (q.op = "complete" => c.at # "findPair")
        BY <2>2 DEF Idle
      <3>3. q.to = "COMPLETED" => q.op # "clear" /\ movement[q.movement].status # "IN_PROGRESS"
        BY <3>1 DEF Settling
      <3>4. q \in RequestRow
        BY InFlight DEF Inductive
      <3>5. ASSUME q.to = "COMPLETED" PROVE FALSE
        <4>1. c = Idle \/ c = [q EXCEPT !.at = "findPair"]
          BY <3>1, <3>3, <3>5 DEF ReadMovement, Inductive, TypeOK
        <4> QED BY <2>2, <3>2, <3>4, <4>1 DEF RequestRow
      <3> QED BY <3>1, <3>5
    <2>3. ASSUME c.at = "writeMovement" PROVE c.to # "COMPLETED"
      BY <2>1, <2>3 DEF StartOrCompleteMovement, Settling
    <2> QED BY <2>1, <2>2, <2>3 DEF Settling
  <1>3. CASE Crash(r)
    BY <1>3, Died DEF Settling, Idle
  <1> QED BY <1>1, <1>2, <1>3

LEMMA SettlesAlone ==
  ASSUME TypeOK, NEW r \in Request, OthersIdle(r), NEW c,
         request' = [request EXCEPT ![r] = c], Settling(c)', RowsSettled'
  PROVE  Settled'
  <1>1. request'[r] = c /\ \A s \in Request \ {r} : request'[s] = Idle
    BY DEF TypeOK, OthersIdle
  <1>2. ASSUME NEW s \in Request PROVE Settling(request[s])'
    <2>1. CASE s = r
      <3>1. request'[s] = c
        BY <1>1, <2>1
      <3> QED BY <3>1 DEF Settling, Waits
    <2>2. CASE s # r
      BY <1>1, <2>2 DEF Settling, Idle
    <2> QED BY <2>1, <2>2
  <1> QED BY <1>2 DEF Settled

LEMMA NextSettles ==
  ASSUME Serial, Inductive, OneAtATime, Settled, [Next]_vars
  PROVE  Settled' /\ SettledStays
  <1>0. TypeOK /\ VisitsSound /\ Alone
    BY DEF Inductive, OneAtATime
  <1>1. CASE UNCHANGED <<movement, event, exception, request>>
    BY <1>1 DEF Settled, RowsSettled, Settling, SettledStays, Open, Waits
  <1>2. ASSUME NEW r \in Request, Asks(r) \/ Reads(r) \/ Writes(r) \/ Crash(r)
        PROVE  Settled' /\ SettledStays
    <2>1. PICK q, c : q = request[r] /\ c = request'[r]
      OBVIOUS
    <2>2. OthersIdle(r) /\ request' = [request EXCEPT ![r] = c]
      BY <1>0, <1>2, <2>1, StepsAlone, StepsOwn
    <2>3. Timely(q) /\ Settling(q) /\ RowsSettled
      BY <2>1 DEF OneAtATime, Settled
    <2>4. RowsSettled' /\ SettledStays /\ Settling(c)'
      <3>1. CASE Writes(r)
        BY <1>0, <2>1, <2>3, <3>1, WritesSettle
      <3>2. CASE Asks(r) \/ Reads(r) \/ Crash(r)
        <4>1. UNCHANGED <<movement, event, exception>>
          BY <3>2, Asked, Read, Died DEF rows
        <4>2. Settling(c)
          BY <2>1, <2>3, <3>2, ReadsSettle
        <4>3. Settling(c)'
          BY <4>1, <4>2 DEF Settling, Waits
        <4> QED BY <2>3, <4>1, <4>3, SettledRowsKept
      <3> QED BY <1>2, <3>1, <3>2
    <2> QED BY <1>0, <2>2, <2>4, SettlesAlone
  <1> QED BY <1>1, <1>2, Statements, Outside DEF vars, rows

LEMMA AlwaysSettled == Serial => (Spec => [](Inductive /\ OneAtATime /\ Settled))
  <1> SUFFICES ASSUME Serial PROVE Spec => [](Inductive /\ OneAtATime /\ Settled)
    OBVIOUS
  <1>1. Init => Settled
    BY DEF Init, Settled, RowsSettled, Settling, NoMovement, NoEvent, Idle
  <1>2. Inductive /\ OneAtATime /\ Settled /\ [Next]_vars => Settled'
    BY NextSettles
  <1> QED BY <1>1, <1>2, AlwaysOneAtATime, PTL DEF Spec

\* completeMovement is never reached, if requests are served one at a time: an EXIT that is
\* completed completes an IN_PROGRESS movement only, but it was started while the movement
\* was APPROVED, and startGateEvent starts none once an ENTRY has put it under way.
THEOREM NoMovementCompletes ==
  Serial => (Spec => []\A m \in Movement : movement[m].status # "COMPLETED")
  <1> SUFFICES ASSUME Serial
               PROVE  Spec => []\A m \in Movement : movement[m].status # "COMPLETED"
    OBVIOUS
  <1>1. Settled => \A m \in Movement : movement[m].status # "COMPLETED"
    BY DEF Settled, RowsSettled
  <1> QED BY <1>1, AlwaysSettled, PTL

\* resolveException: an exception on a COMPLETED event stays as it is, so also the one that
\* reconciliation raises on the return leg for a HIGH discrepancy is resolved by nobody, if
\* requests are served one at a time.
THEOREM CompletedVisitsKeepExceptions ==
  Serial => (Spec =>
    [][\A x \in Exception :
         exception[x] # NoException /\ event[exception[x].event].status = "COMPLETED"
           => exception'[x] = exception[x]]_vars)
  <1> SUFFICES ASSUME Serial
               PROVE  Spec =>
                 [][\A x \in Exception :
                      exception[x] # NoException /\ event[exception[x].event].status = "COMPLETED"
                        => exception'[x] = exception[x]]_vars
    OBVIOUS
  <1>1. Inductive /\ OneAtATime /\ Settled /\ [Next]_vars =>
          [\A x \in Exception :
             exception[x] # NoException /\ event[exception[x].event].status = "COMPLETED"
               => exception'[x] = exception[x]]_vars
    BY NextSettles DEF SettledStays
  <1> QED BY <1>1, AlwaysSettled, PTL DEF Spec

\* transitionGateEvent: a decision once made is never replaced by another one, nor taken
\* back, if requests are served one at a time.
THEOREM DecisionsAreFinal ==
  Serial => (Spec => [][\A e \in Event : event[e].decision # "NONE"
                          => event'[e].decision = event[e].decision]_vars)
  <1> SUFFICES ASSUME Serial
               PROVE  Spec => [][\A e \in Event : event[e].decision # "NONE"
                                   => event'[e].decision = event[e].decision]_vars
    OBVIOUS
  <1>1. Inductive /\ OneAtATime /\ Settled /\ [Next]_vars =>
          [\A e \in Event : event[e].decision # "NONE"
             => event'[e].decision = event[e].decision]_vars
    BY NextSettles DEF SettledStays
  <1> QED BY <1>1, AlwaysSettled, PTL DEF Spec

\* buildReconciliation: a pair once written is never replaced, however requests interleave
\* and wherever they die.
THEOREM PairsAreFinal ==
  Spec => [][\A m \in Movement : reconciliation[m] # NoPair
               => reconciliation'[m] = reconciliation[m]]_vars
  <1>1. Inductive /\ [Next]_vars =>
          [\A m \in Movement : reconciliation[m] # NoPair
             => reconciliation'[m] = reconciliation[m]]_vars
    <2> SUFFICES ASSUME Inductive, Next, NEW m \in Movement, reconciliation[m] # NoPair
                 PROVE  reconciliation'[m] = reconciliation[m]
      OBVIOUS
    <2>1. CASE UNCHANGED reconciliation
      BY <2>1
    <2>2. ASSUME NEW r \in Request, Writes(r) PROVE reconciliation'[m] = reconciliation[m]
      BY <2>2, PairKept
    <2> QED BY <2>1, <2>2, Statements, Outside, Asked, Read, Died DEF rows
  <1> QED BY <1>1, AlwaysInductive, PTL DEF Spec

===============================================================================
