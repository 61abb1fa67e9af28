------------------------------ MODULE GateLemmas -------------------------------
(***************************************************************************)
(* Inductive is preserved by every statement: first those that only read,  *)
(* a handler's first checks and the reads between its writes, then those   *)
(* that write a row.  The first lemmas are the frame of every step: a      *)
(* request goes on as call, the others keep what they have checked.        *)
(***************************************************************************)
EXTENDS GateOperations, TLAPS

-------------------------------------------------------------------------------
(* Why the invariants of GateOperations hold however requests interleave:  *)
(* the rows never lose what a request has checked about them (Keeps), and a*)
(* request in flight still satisfies what it checked when it reaches the   *)
(* statement that relies on it (Sound).                                    *)

Verdict == {"VERIFIED", "NOT_VERIFIED"}

\* What a request carries at each of its statements.
WellFormed(q) ==
  /\ q.at # "idle" => q.user \in User
  /\ q.at \in {"readAuthorisation", "readFleet", "insertEvent"} => q.arg \in Direction
  /\ q.at \in {"readPending", "countAttempts", "insertAttempt"} => q.arg \in Verdict
  /\ q.at \in {"recordIdentity", "readFallback"} => q.arg \in Identity
  /\ q.at = "writeItem" => q.arg \in Outcome
  /\ q.at = "writeResolution" => q.arg \in ContinueOutcome \cup BlockOutcome
  /\ q.at \in {"readMovement", "checkMovement"} => q.to \in {"IN_PROGRESS", "COMPLETED"}
  /\ q.at = "writeMovement" => q.to \in MovementStatus
  /\ q.at \in {"checkEvent", "writeEvent"} => q.to \in GateEventStatus
  /\ q.at \in {"writeFallback", "readFallback"} => q.row \in Fallback
  /\ q.at = "writeFallback" => q.to \in {"APPROVED", "DENIED"}
  /\ q.at \in {"checkEvent", "writeEvent", "readPending", "countAttempts",
               "insertAttempt", "recordIdentity", "readFallback", "writeItem",
               "readEvent", "insertException", "writeResolution", "findFallback",
               "insertFallback"} => q.event \in Event
  /\ q.at \in {"insertPair", "raiseDiscrepancy"} => q.event \in Event /\ q.row \in Event
  /\ q.at = "writeResolution" => q.row \in Exception

\* A fallback of e that somebody else than its requester has resolved.
ResolvedFor(f, e) == fallback[f].event = e /\ fallback[f].approvedBy # None

\* d and t can be the two legs of m, now and ever after.
OutAndBack(m, d, t) ==
  /\ d # t
  /\ event[d].movement = m /\ event[t].movement = m
  /\ event[d].direction # event[t].direction
  /\ event[d].decision # "NONE" /\ event[t].decision # "NONE"

\* What a request has checked and the rows still satisfy when it writes.
Sound(q) ==
  /\ q.at = "writeMovement" /\ q.movement \in Movement =>
       /\ movement[q.movement].status # "NONE"
       /\ q.to = "APPROVED" /\ ~AllowSelfApprove => movement[q.movement].requester # q.user
  /\ q.at = "writeEvent" /\ q.to = "COMPLETED" => event[q.event].decision # "NONE"
  /\ q.at = "writeFallback" =>
       fallback[q.row].status # "NONE" /\ fallback[q.row].requestedBy # q.user
  /\ q.at = "recordIdentity" /\ q.arg = "MANUAL_FALLBACK_APPROVED" =>
       \E f \in Fallback : ResolvedFor(f, q.event)
  /\ q.at = "writeResolution" =>
       /\ exception[q.row].event # None
       /\ exception[q.row].serious => exception[q.row].raisedBy # q.user
  /\ q.at = "insertPair" => OutAndBack(q.movement, q.event, q.row)

\* What holds of the rows besides the invariants themselves: an empty row is empty,
\* and an approved fallback names its approver.
RowsSound ==
  /\ \A x \in Exception : exception[x].event = None => exception[x] = NoException
  /\ \A f \in Fallback : fallback[f].status = "NONE" => fallback[f] = NoFallback
  /\ \A f \in Fallback : fallback[f].status = "APPROVED" => fallback[f].approvedBy # None
  /\ \A m \in Movement : reconciliation[m] # NoPair =>
       reconciliation[m].departure \in Event /\ reconciliation[m].return \in Event

Safe ==
  /\ SeriousNeedsAnotherUser
  /\ ApproverIsNotRequester
  /\ DecisionMatchesStatus
  /\ FallbackNeedsAnotherUser
  /\ PairIsOutAndBack

Inductive ==
  /\ TypeOK
  /\ RowsSound
  /\ Safe
  /\ \A r \in Request : WellFormed(request[r]) /\ Sound(request[r])

\* No statement takes back what a request may have checked.
Keeps ==
  /\ \A m \in Movement : movement[m].status # "NONE" =>
       movement'[m].status # "NONE" /\ movement'[m].requester = movement[m].requester
  /\ \A e \in Event : event[e].decision # "NONE" =>
       /\ event'[e].decision # "NONE"
       /\ event'[e].movement = event[e].movement
       /\ event'[e].direction = event[e].direction
  /\ \A f \in Fallback : fallback[f].status # "NONE" =>
       /\ fallback'[f].status # "NONE"
       /\ fallback'[f].event = fallback[f].event
       /\ fallback'[f].requestedBy = fallback[f].requestedBy
       /\ fallback[f].approvedBy # None => fallback'[f].approvedBy # None
  /\ \A x \in Exception : exception[x].event # None =>
       /\ exception'[x].event # None
       /\ exception'[x].serious = exception[x].serious
       /\ exception'[x].raisedBy = exception[x].raisedBy

-------------------------------------------------------------------------------
(* Requests served one at a time.  What a request has read is still so when *)
(* it writes: only the window of the rate limit moves under it.            *)

Alone == \A r, s \in Request : request[r] # Idle /\ request[s] # Idle => r = s

\* A visit of m in direction d has come to one of the statuses.
Went(m, d, statuses) ==
  \E e \in Event : event[e].movement = m /\ event[e].direction = d /\ event[e].status \in statuses

Identified(e) ==
  \/ event[e].identity \in {"VERIFIED", "MANUAL_FALLBACK_APPROVED"}
  \/ \E x \in Exception : exception[x].event = e

PastIdentity ==
  {"IDENTITY_VERIFIED", "VEHICLE_CHECKS_IN_PROGRESS", "EXCEPTION_RAISED",
   "SUPERVISOR_REVIEW", "CLEARED", "DENIED", "COMPLETED"}

VisitSound(e) ==
  /\ event[e].status = "NONE" => event[e] = NoEvent
  /\ event[e] # NoEvent => event[e].movement \in Movement /\ event[e].direction \in Direction
  /\ event[e].decision = "CLEARED" => event[e].status \in {"CLEARED", "COMPLETED"}
  /\ event[e].status \in PastIdentity => Identified(e)

VisitsSound ==
  (\A e \in Event : VisitSound(e)) /\ OneOpenEventPerMovement /\ UnderWayMeansEntered

\* What startGateEvent, the identity check and the inspection have found.
TimelyVisit(q) ==
  /\ q.at \in {"readAuthorisation", "readFleet", "insertEvent"} =>
       q.movement \in Movement /\ \A e \in Event : Open(e) => event[e].movement # q.movement
  /\ q.at \in {"readFleet", "insertEvent"} => movement[q.movement].status = "APPROVED"
  /\ q.at \in {"countAttempts", "insertAttempt", "recordIdentity", "readFallback"} =>
       PendingIdentity(q.event)
  /\ q.at = "writeItem" => event[q.event].status = "VEHICLE_CHECKS_IN_PROGRESS"

\* What a request that moves a gate event has found.
TimelyMove(q) ==
  /\ q.op \in {"clear", "complete"} =>
       q.at \in {"checkEvent", "writeEvent", "readMovement", "checkMovement", "writeMovement",
                 "findPair", "insertPair", "raiseDiscrepancy"}
  /\ q.at \in {"checkEvent", "writeEvent"} =>
       /\ q.op = "clear" <=> q.to = "CLEARED"
       /\ q.op = "complete" <=> q.to = "COMPLETED"
       /\ q.op = "complete" => q.seen = event[q.event].decision
       /\ q.op = "clear" => "vehicle" \in available[event[q.event].movement]
       /\ q.to \in {"IDENTITY_VERIFIED", "EXCEPTION_RAISED"} => Identified(q.event)
  /\ q.at = "writeEvent" => <<event[q.event].status, q.to>> \in GateEventTransitions

\* What a request that moves a movement has found.
TimelyMovement(q) ==
  /\ q.at \in {"readMovement", "checkMovement", "writeMovement"} =>
       /\ q.movement \in Movement
       /\ q.to = "IN_PROGRESS" => Went(q.movement, "ENTRY", {"CLEARED"})
       /\ q.to = "COMPLETED" => Went(q.movement, "EXIT", {"COMPLETED"})
  /\ q.at \in {"readMovement", "checkMovement"} /\ q.op = "complete" => q.to = "COMPLETED"
  /\ q.at = "checkMovement" /\ q.op = "complete" => movement[q.movement].status = "IN_PROGRESS"
  /\ q.at = "writeMovement" => <<movement[q.movement].status, q.to>> \in MovementTransitions

Timely(q) == TimelyVisit(q) /\ TimelyMove(q) /\ TimelyMovement(q)

OneAtATime == Alone /\ VisitsSound /\ \A r \in Request : Timely(request[r])

-------------------------------------------------------------------------------
(* What a request still has to do, if none dies.                           *)

\* completedAt puts the cleared legs of a movement in an order, and so those of one way.
Way(m, d) == {e \in Legs(m) : event[e].direction = d}

FirstLegs ==
  \A m \in Movement :
    /\ Legs(m) # {} => \E e \in Event : FirstOf(e, Legs(m))
    /\ \A d \in Direction : Way(m, d) # {} => \E e \in Event : FirstOf(e, Way(m, d))

\* Between the completion of the second leg and the insert of the pair, the request that
\* completed it, or one that reconciles on demand, is on its way to that insert.
PairsSoon(q, m) ==
  /\ q.movement = m
  /\ \/ q.at \in {"readMovement", "checkMovement", "writeMovement"} /\ q.op = "complete"
     \/ q.at \in {"findPair", "insertPair"}

PairedInTime ==
  \A m \in Movement :
    (\E d, t \in Legs(m) : event[d].direction # event[t].direction) /\ reconciliation[m] = NoPair
      => \E r \in Request : PairsSoon(request[r], m)

Failed(e) == event[e].item \in {"FAIL_MINOR", "FAIL_SERIOUS"}

Raised(e) ==
  \/ \E x \in Exception : exception[x].event = e /\ exception[x].item
  \/ \A x \in Exception : exception[x] # NoException

\* Between the write of a failed item and the insert of its exception, the request that
\* wrote it is on its way to that insert, also among others.
RaisesSoon(q, e) == q.op = "inspect" /\ q.at \in {"readEvent", "insertException"} /\ q.event = e

RaisedInTime ==
  /\ \A r \in Request : request[r].at = "writeItem" => request[r].op = "inspect"
  /\ \A e \in Event : Failed(e) => Raised(e) \/ \E r \in Request : RaisesSoon(request[r], e)

-------------------------------------------------------------------------------
(* The rate limit: every attempt on e that is made or about to be inserted *)
(* but the last one was counted.                                           *)

Inserting(e) == {r \in Request : request[r].at = "insertAttempt" /\ request[r].event = e}

AttemptsCounted ==
  \A e \in Event :
    /\ IsFiniteSet(RecentAttempts(e)) /\ IsFiniteSet(Inserting(e))
    /\ Cardinality(RecentAttempts(e)) + Cardinality(Inserting(e))
         < RateLimit + (IF Serial THEN 1 ELSE Cardinality(Request))

-------------------------------------------------------------------------------
\* Sound survives any step that keeps the rows.
LEMMA SoundKept ==
  ASSUME RowsSound, Keeps, NEW q \in RequestRow, WellFormed(q), Sound(q)
  PROVE  Sound(q)'
  <1>1. (q.at = "writeMovement" /\ q.movement \in Movement =>
       /\ movement[q.movement].status # "NONE"
       /\ q.to = "APPROVED" /\ ~AllowSelfApprove => movement[q.movement].requester # q.user)'
    BY DEF Keeps, WellFormed, Sound
  <1>2. (q.at = "writeEvent" /\ q.to = "COMPLETED" => event[q.event].decision # "NONE")'
    BY DEF Keeps, WellFormed, Sound
  <1>3. (q.at = "writeFallback" =>
       fallback[q.row].status # "NONE" /\ fallback[q.row].requestedBy # q.user)'
    BY DEF Keeps, WellFormed, Sound
  <1>4. (q.at = "recordIdentity" /\ q.arg = "MANUAL_FALLBACK_APPROVED" =>
       \E f \in Fallback : ResolvedFor(f, q.event))'
    <2> SUFFICES ASSUME q.at = "recordIdentity", q.arg = "MANUAL_FALLBACK_APPROVED"
                 PROVE  \E f \in Fallback : ResolvedFor(f, q.event)'
      OBVIOUS
    <2>1. PICK f \in Fallback : ResolvedFor(f, q.event)
      BY DEF Sound
    <2>2. fallback[f].status # "NONE"
      BY <2>1 DEF ResolvedFor, RowsSound, NoFallback
    <2> QED BY <2>1, <2>2 DEF Keeps, ResolvedFor
  <1>5. (q.at = "writeResolution" =>
       /\ exception[q.row].event # None
       /\ exception[q.row].serious => exception[q.row].raisedBy # q.user)'
    BY DEF Keeps, WellFormed, Sound
  <1>6. (q.at = "insertPair" => OutAndBack(q.movement, q.event, q.row))'
    BY DEF Keeps, WellFormed, Sound, OutAndBack
  <1> QED BY <1>1, <1>2, <1>3, <1>4, <1>5, <1>6 DEF Sound

\* A write: the rows keep what was checked, and request r goes on as call.
LEMMA Written ==
  ASSUME Inductive, Keeps, RowsTypeOK', RowsSound', Safe',
         NEW r \in Request, NEW call \in RequestRow, WellFormed(call), Sound(call)',
         request' = [request EXCEPT ![r] = call]
  PROVE  Inductive'
  <1>1. ASSUME NEW s \in Request
        PROVE  WellFormed(request[s])' /\ Sound(request[s])'
    <2>1. CASE s = r
      <3>1. request'[s] = call
        BY <2>1 DEF Inductive, TypeOK
      <3> QED BY <3>1 DEF WellFormed, Sound, OutAndBack, ResolvedFor
    <2>2. CASE s # r
      <3>1. PICK q : q = request[s]
        OBVIOUS
      <3>2. q \in RequestRow /\ WellFormed(q) /\ Sound(q) /\ RowsSound
        BY <3>1 DEF Inductive, TypeOK
      <3>3. request'[s] = q
        BY <2>2, <3>1 DEF Inductive, TypeOK
      <3>4. Sound(q)'
        BY <3>2, SoundKept
      <3> QED BY <3>2, <3>3, <3>4 DEF WellFormed, Sound, OutAndBack, ResolvedFor
    <2> QED BY <2>1, <2>2
  <1>2. TypeOK'
    BY DEF Inductive, TypeOK
  <1> QED BY <1>1, <1>2 DEF Inductive

\* A step that leaves the rows alone keeps all that is said of them.
LEMMA Still ==
  ASSUME Inductive, UNCHANGED rows
  PROVE  Keeps /\ RowsTypeOK' /\ RowsSound' /\ Safe'
  <1> USE DEF Inductive, rows
  <1>1. Keeps
    BY DEF Keeps
  <1>2. RowsTypeOK'
    BY DEF TypeOK, RowsTypeOK
  <1>3. RowsSound'
    BY DEF RowsSound
  <1>4. Safe'
    BY DEF Safe, SeriousNeedsAnotherUser, ApproverIsNotRequester, DecisionMatchesStatus,
           FallbackNeedsAnotherUser, PairIsOutAndBack
  <1> QED BY <1>1, <1>2, <1>3, <1>4

\* A statement that only reads: request r goes on as call.
LEMMA Served ==
  ASSUME Inductive, UNCHANGED rows,
         NEW r \in Request, NEW call \in RequestRow, WellFormed(call), Sound(call),
         request' = [request EXCEPT ![r] = call]
  PROVE  Inductive'
  <1>1. Sound(call)'
    BY DEF Sound, OutAndBack, ResolvedFor, rows
  <1> QED BY <1>1, Still, Written

\* A request that has ended carries nothing.
LEMMA IdleSound == Idle \in RequestRow /\ WellFormed(Idle) /\ Sound(Idle)
  BY DEF Idle, RequestRow, WellFormed, Sound, Step, Operation

\* An ended request stays sound, whatever the rows become.
LEMMA IdleStaysSound == Sound(Idle)'
  BY DEF Idle, Sound

\* What Inductive says of one request.
LEMMA InFlight ==
  ASSUME Inductive, NEW r \in Request
  PROVE  /\ request[r] \in RequestRow
         /\ WellFormed(request[r])
         /\ Sound(request[r])
  BY DEF Inductive, TypeOK

-------------------------------------------------------------------------------
(* The statements that only read.                                          *)

\* createMovement starts: only the requester and the movement travel on.
LEMMA CreateMovementKeeps ==
  ASSUME Inductive, NEW r \in Request, CreateMovement(r)
  PROVE  Inductive'
  <1>1. PICK u \in User, m \in Movement :
          request' = [request EXCEPT ![r] =
            [Call("createMovement", "insertMovement", u) EXCEPT !.movement = m]]
    BY DEF CreateMovement, Serve
  <1> DEFINE c == [Call("createMovement", "insertMovement", u) EXCEPT !.movement = m]
  <1>2. c \in RequestRow /\ WellFormed(c) /\ Sound(c)
    BY DEF Call, Idle, RequestRow, Step, Operation, WellFormed, Sound
  <1> QED BY <1>1, <1>2, Served DEF CreateMovement

\* A movement transition asked for by the API: the row exists, and an approver is not the
\* requester unless the tenant opted in.
LEMMA AskMovementKeeps ==
  ASSUME Inductive, NEW r \in Request, NEW u \in User, NEW m \in Movement,
         NEW op \in Operation, NEW to \in MovementStatus, AskMovement(r, op, u, m, to),
         to = "APPROVED" => AllowSelfApprove \/ u # movement[m].requester
  PROVE  Inductive'
  <1> DEFINE c == [Call(op, "writeMovement", u) EXCEPT !.movement = m, !.to = to]
  <1>1. request' = [request EXCEPT ![r] = c]
    BY DEF AskMovement, Serve
  <1>2. movement[m].status # "NONE"
    BY DEF AskMovement, MovementTransitions
  <1>3. c \in RequestRow /\ WellFormed(c) /\ Sound(c)
    BY <1>2 DEF Call, Idle, RequestRow, Step, WellFormed, Sound
  <1> QED BY <1>1, <1>3, Served DEF AskMovement

\* A gate transition asked for by the API: the status COMPLETED is never among them.
LEMMA AskTransitionKeeps ==
  ASSUME Inductive, NEW r \in Request, NEW op \in Operation,
         NEW to \in GateEventStatus \ {"COMPLETED"}, AskTransition(r, op, to)
  PROVE  Inductive'
  <1>1. PICK u \in User, e \in Event :
          request' = [request EXCEPT ![r] =
            [Call(op, "writeEvent", u) EXCEPT !.event = e, !.to = to]]
    BY DEF AskTransition, Serve
  <1> DEFINE c == [Call(op, "writeEvent", u) EXCEPT !.event = e, !.to = to]
  <1>2. c \in RequestRow /\ WellFormed(c) /\ Sound(c)
    BY DEF Call, Idle, RequestRow, Step, WellFormed, Sound
  <1> QED BY <1>1, <1>2, Served DEF AskTransition

\* submitMovement asks for SUBMITTED.
LEMMA SubmitMovementKeeps ==
  ASSUME Inductive, NEW r \in Request, SubmitMovement(r)
  PROVE  Inductive'
  BY AskMovementKeeps DEF SubmitMovement, Operation, MovementStatus

\* approveMovement asks for APPROVED behind its self-approval check.
LEMMA ApproveMovementKeeps ==
  ASSUME Inductive, NEW r \in Request, ApproveMovement(r)
  PROVE  Inductive'
  BY AskMovementKeeps DEF ApproveMovement, Operation, MovementStatus

\* rejectMovement asks for REJECTED.
LEMMA RejectMovementKeeps ==
  ASSUME Inductive, NEW r \in Request, RejectMovement(r)
  PROVE  Inductive'
  BY AskMovementKeeps DEF RejectMovement, Operation, MovementStatus

\* cancelMovement asks for CANCELLED.
LEMMA CancelMovementKeeps ==
  ASSUME Inductive, NEW r \in Request, CancelMovement(r)
  PROVE  Inductive'
  BY AskMovementKeeps DEF CancelMovement, Operation, MovementStatus

\* moveToIdentityPending asks for IDENTITY_PENDING.
LEMMA MoveToIdentityPendingKeeps ==
  ASSUME Inductive, NEW r \in Request, MoveToIdentityPending(r)
  PROVE  Inductive'
  BY AskTransitionKeeps DEF MoveToIdentityPending, Operation, GateEventStatus

\* beginVehicleChecks asks for VEHICLE_CHECKS_IN_PROGRESS.
LEMMA BeginVehicleChecksKeeps ==
  ASSUME Inductive, NEW r \in Request, BeginVehicleChecks(r)
  PROVE  Inductive'
  BY AskTransitionKeeps DEF BeginVehicleChecks, Operation, GateEventStatus

\* escalateExceptionToSupervisor asks for SUPERVISOR_REVIEW.
LEMMA EscalateExceptionKeeps ==
  ASSUME Inductive, NEW r \in Request, EscalateException(r)
  PROVE  Inductive'
  BY AskTransitionKeeps DEF EscalateException, Operation, GateEventStatus

\* denyGateEvent asks for DENIED.
LEMMA DenyGateEventKeeps ==
  ASSUME Inductive, NEW r \in Request, DenyGateEvent(r)
  PROVE  Inductive'
  BY AskTransitionKeeps DEF DenyGateEvent, Operation, GateEventStatus

\* cancelGateEvent asks for CANCELLED.
LEMMA CancelGateEventKeeps ==
  ASSUME Inductive, NEW r \in Request, CancelGateEvent(r)
  PROVE  Inductive'
  BY AskTransitionKeeps DEF CancelGateEvent, Operation, GateEventStatus

\* startGateEvent found no open event: it carries the direction.
LEMMA StartGateEventKeeps ==
  ASSUME Inductive, NEW r \in Request, StartGateEvent(r)
  PROVE  Inductive'
  <1>1. PICK u \in User, m \in Movement, d \in Direction :
          request' = [request EXCEPT ![r] =
            [Call("start", "readAuthorisation", u) EXCEPT !.movement = m, !.arg = d]]
    BY DEF StartGateEvent, Serve
  <1> DEFINE c == [Call("start", "readAuthorisation", u) EXCEPT !.movement = m, !.arg = d]
  <1>2. c \in RequestRow /\ WellFormed(c) /\ Sound(c)
    BY DEF Call, Idle, RequestRow, Step, Operation, WellFormed, Sound
  <1> QED BY <1>1, <1>2, Served DEF StartGateEvent

\* clearGateEvent goes on to the transition to CLEARED.
LEMMA ClearGateEventKeeps ==
  ASSUME Inductive, NEW r \in Request, ClearGateEvent(r)
  PROVE  Inductive'
  <1>1. PICK u \in User, e \in Event :
          request' = [request EXCEPT ![r] =
            [Call("clear", "checkEvent", u) EXCEPT !.event = e, !.to = "CLEARED"]]
    BY DEF ClearGateEvent, Serve
  <1> DEFINE c == [Call("clear", "checkEvent", u) EXCEPT !.event = e, !.to = "CLEARED"]
  <1>2. c \in RequestRow /\ WellFormed(c) /\ Sound(c)
    BY DEF Call, Idle, RequestRow, Step, Operation, WellFormed, Sound, GateEventStatus
  <1> QED BY <1>1, <1>2, Served DEF ClearGateEvent

\* completeGateEvent carries the decision it has read.
LEMMA CompleteGateEventKeeps ==
  ASSUME Inductive, NEW r \in Request, CompleteGateEvent(r)
  PROVE  Inductive'
  <1>1. PICK u \in User, e \in Event :
          request' = [request EXCEPT ![r] =
            [Call("complete", "checkEvent", u) EXCEPT
               !.event = e, !.to = "COMPLETED", !.seen = event[e].decision]]
    BY DEF CompleteGateEvent, Serve
  <1>2. PICK d : d = event[e].decision
    OBVIOUS
  <1> DEFINE c == [Call("complete", "checkEvent", u) EXCEPT
                     !.event = e, !.to = "COMPLETED", !.seen = d]
  <1>3. d \in GateEventStatus \cup {"NONE"}
    BY <1>2 DEF Inductive, TypeOK, RowsTypeOK, EventRow, GateEventStatus
  <1>4. c \in RequestRow
    BY <1>3 DEF Call, Idle, RequestRow, Step, Operation, GateEventStatus
  <1>5. WellFormed(c) /\ Sound(c)
    BY DEF Call, Idle, WellFormed, Sound, GateEventStatus
  <1> QED BY <1>1, <1>2, <1>4, <1>5, Served DEF CompleteGateEvent

\* The provider answers VERIFIED or not, never with a manual approval.
LEMMA VerifyIdentityKeeps ==
  ASSUME Inductive, NEW r \in Request, VerifyIdentity(r)
  PROVE  Inductive'
  <1>1. PICK u \in User, e \in Event, outcome \in Verdict :
          request' = [request EXCEPT ![r] =
            [Call("verify", "recordIdentity", u) EXCEPT !.event = e, !.arg = outcome]]
    BY DEF VerifyIdentity, Serve, Verdict
  <1> DEFINE c == [Call("verify", "recordIdentity", u) EXCEPT !.event = e, !.arg = outcome]
  <1>2. c \in RequestRow /\ WellFormed(c) /\ Sound(c)
    BY DEF Call, Idle, RequestRow, Step, Operation, WellFormed, Sound, Verdict, Identity
  <1> QED BY <1>1, <1>2, Served DEF VerifyIdentity

\* An attempt on the device carries one of the two verdicts.
LEMMA AttemptVerificationKeeps ==
  ASSUME Inductive, NEW r \in Request, NEW op \in Operation, AttemptVerification(r, op)
  PROVE  Inductive'
  <1>1. PICK u \in User, e \in Event, k \in Attempt, outcome \in Verdict :
          request' = [request EXCEPT ![r] =
            [Call(op, "readPending", u) EXCEPT !.event = e, !.row = k, !.arg = outcome]]
    BY DEF AttemptVerification, Serve, Verdict
  <1> DEFINE c == [Call(op, "readPending", u) EXCEPT !.event = e, !.row = k, !.arg = outcome]
  <1>2. c \in RequestRow /\ WellFormed(c) /\ Sound(c)
    BY DEF Call, Idle, RequestRow, Step, WellFormed, Sound, Verdict, Identity
  <1> QED BY <1>1, <1>2, Served DEF AttemptVerification

\* The on-device match is such an attempt.
LEMMA RunOnDeviceVerificationKeeps ==
  ASSUME Inductive, NEW r \in Request, RunOnDeviceVerification(r)
  PROVE  Inductive'
  BY AttemptVerificationKeeps DEF RunOnDeviceVerification, Operation

\* The synthetic match is such an attempt.
LEMMA RunSyntheticVerificationKeeps ==
  ASSUME Inductive, NEW r \in Request, RunSyntheticVerification(r)
  PROVE  Inductive'
  BY AttemptVerificationKeeps DEF RunSyntheticVerification, Operation

\* requestManualFallback carries its event.
LEMMA RequestManualFallbackKeeps ==
  ASSUME Inductive, NEW r \in Request, RequestManualFallback(r)
  PROVE  Inductive'
  <1>1. PICK u \in User, e \in Event :
          request' = [request EXCEPT ![r] =
            [Call("requestFallback", "findFallback", u) EXCEPT !.event = e]]
    BY DEF RequestManualFallback, Serve
  <1> DEFINE c == [Call("requestFallback", "findFallback", u) EXCEPT !.event = e]
  <1>2. c \in RequestRow /\ WellFormed(c) /\ Sound(c)
    BY DEF Call, Idle, RequestRow, Step, Operation, WellFormed, Sound
  <1> QED BY <1>1, <1>2, Served DEF RequestManualFallback

\* resolveManualFallback: the row exists and the resolver did not request it.
LEMMA ResolveManualFallbackKeeps ==
  ASSUME Inductive, NEW r \in Request, ResolveManualFallback(r)
  PROVE  Inductive'
  <1>1. PICK u \in User, f \in Fallback, decision \in {"APPROVED", "DENIED"} :
          /\ fallback[f].status = "PENDING" /\ fallback[f].requestedBy # u
          /\ request' = [request EXCEPT ![r] =
            [Call("resolveFallback", "writeFallback", u) EXCEPT !.row = f, !.to = decision]]
    BY DEF ResolveManualFallback, Serve
  <1> DEFINE c == [Call("resolveFallback", "writeFallback", u) EXCEPT !.row = f, !.to = decision]
  <1>2. c \in RequestRow /\ WellFormed(c) /\ Sound(c)
    BY <1>1 DEF Call, Idle, RequestRow, Step, Operation, WellFormed, Sound
  <1> QED BY <1>1, <1>2, Served DEF ResolveManualFallback

\* markIdentityVerifiedManually carries the manual outcome and the fallback.
LEMMA MarkVerifiedManuallyKeeps ==
  ASSUME Inductive, NEW r \in Request, MarkVerifiedManually(r)
  PROVE  Inductive'
  <1>1. PICK u \in User, e \in Event, f \in Fallback :
          request' = [request EXCEPT ![r] =
            [Call("manual", "readFallback", u) EXCEPT
               !.event = e, !.row = f, !.arg = "MANUAL_FALLBACK_APPROVED"]]
    BY DEF MarkVerifiedManually, Serve
  <1> DEFINE c == [Call("manual", "readFallback", u) EXCEPT
               !.event = e, !.row = f, !.arg = "MANUAL_FALLBACK_APPROVED"]
  <1>2. c \in RequestRow /\ WellFormed(c) /\ Sound(c)
    BY DEF Call, Idle, RequestRow, Step, Operation, WellFormed, Sound, Identity
  <1> QED BY <1>1, <1>2, Served DEF MarkVerifiedManually

\* recordInspectionResult carries the outcome of the item.
LEMMA RecordInspectionResultKeeps ==
  ASSUME Inductive, NEW r \in Request, RecordInspectionResult(r)
  PROVE  Inductive'
  <1>1. PICK u \in User, e \in Event, outcome \in Outcome :
          request' = [request EXCEPT ![r] =
            [Call("inspect", "writeItem", u) EXCEPT !.event = e, !.arg = outcome]]
    BY DEF RecordInspectionResult, Serve
  <1> DEFINE c == [Call("inspect", "writeItem", u) EXCEPT !.event = e, !.arg = outcome]
  <1>2. c \in RequestRow /\ WellFormed(c) /\ Sound(c)
    BY DEF Call, Idle, RequestRow, Step, Operation, WellFormed, Sound
  <1> QED BY <1>1, <1>2, Served DEF RecordInspectionResult

\* raiseException carries the status it has read.
LEMMA RaiseExceptionKeeps ==
  ASSUME Inductive, NEW r \in Request, RaiseException(r)
  PROVE  Inductive'
  <1>1. PICK u \in User, e \in Event, severity \in {"FAIL_MINOR", "FAIL_SERIOUS"} :
          request' = [request EXCEPT ![r] =
            [Call("raise", "insertException", u) EXCEPT
               !.event = e, !.arg = severity, !.seen = event[e].status]]
    BY DEF RaiseException, Serve
  <1>2. PICK d : d = event[e].status
    OBVIOUS
  <1> DEFINE c == [Call("raise", "insertException", u) EXCEPT
                     !.event = e, !.arg = severity, !.seen = d]
  <1>3. d \in GateEventStatus \cup {"NONE"}
    BY <1>2 DEF Inductive, TypeOK, RowsTypeOK, EventRow
  <1>4. c \in RequestRow /\ WellFormed(c) /\ Sound(c)
    BY <1>3 DEF Call, Idle, RequestRow, Step, Operation, WellFormed, Sound, Outcome
  <1> QED BY <1>1, <1>2, <1>4, Served DEF RaiseException

\* resolveException: the exception exists, and a serious one was raised by another user.
LEMMA ResolveExceptionKeeps ==
  ASSUME Inductive, NEW r \in Request, ResolveException(r)
  PROVE  Inductive'
  <1>1. PICK u \in User, x \in Exception, outcome \in ContinueOutcome \cup BlockOutcome :
          /\ MayResolve(u, x)
          /\ request' = [request EXCEPT ![r] =
               [Call("resolve", "writeResolution", u) EXCEPT
                  !.event = exception[x].event, !.row = x, !.arg = outcome]]
    BY DEF ResolveException, Serve
  <1>2. PICK e : e = exception[x].event
    OBVIOUS
  <1> DEFINE c == [Call("resolve", "writeResolution", u) EXCEPT
                     !.event = e, !.row = x, !.arg = outcome]
  <1>3. e \in Event /\ exception[x].event # None
    BY <1>1, <1>2 DEF MayResolve, Inductive, RowsSound, TypeOK, RowsTypeOK, ExceptionRow
  <1>4. exception[x].serious => exception[x].raisedBy # u
    BY <1>1 DEF MayResolve
  <1>5. c \in RequestRow /\ WellFormed(c) /\ Sound(c)
    BY <1>3, <1>4 DEF Call, Idle, RequestRow, Step, Operation, WellFormed, Sound
  <1> QED BY <1>1, <1>2, <1>5, Served DEF ResolveException

\* POST /api/reconciliations for a movement goes on to the pairing.
LEMMA ReconcileMovementKeeps ==
  ASSUME Inductive, NEW r \in Request, ReconcileMovement(r)
  PROVE  Inductive'
  <1>1. PICK u \in User, m \in Movement :
          request' = [request EXCEPT ![r] =
            [Call("reconcile", "findPair", u) EXCEPT !.movement = m]]
    BY DEF ReconcileMovement, Serve
  <1> DEFINE c == [Call("reconcile", "findPair", u) EXCEPT !.movement = m]
  <1>2. c \in RequestRow /\ WellFormed(c) /\ Sound(c)
    BY DEF Call, Idle, RequestRow, Step, Operation, WellFormed, Sound
  <1> QED BY <1>1, <1>2, Served DEF ReconcileMovement

\* POST /api/reconciliations for two legs: they go out and back.
LEMMA ReconcilePairKeeps ==
  ASSUME Inductive, NEW r \in Request, ReconcilePair(r)
  PROVE  Inductive'
  <1>1. PICK u \in User, d \in Event, t \in Event :
          /\ ValidPair(d, t)
          /\ request' = [request EXCEPT ![r] =
               [Call("reconcilePair", "insertPair", u) EXCEPT
                  !.movement = event[d].movement, !.event = d, !.row = t]]
    BY DEF ReconcilePair, Serve
  <1>2. PICK m : m = event[d].movement
    OBVIOUS
  <1> DEFINE c == [Call("reconcilePair", "insertPair", u) EXCEPT
                     !.movement = m, !.event = d, !.row = t]
  <1>3. m \in Movement \cup {None} /\ OutAndBack(m, d, t)
    BY <1>1, <1>2 DEF ValidPair, ClearedLeg, OutAndBack, Inductive, TypeOK, RowsTypeOK,
                            EventRow
  <1>4. c \in RequestRow /\ WellFormed(c) /\ Sound(c)
    BY <1>3 DEF Call, Idle, RequestRow, Step, Operation, WellFormed, Sound
  <1> QED BY <1>1, <1>2, <1>4, Served DEF ReconcilePair

\* Reading the movement of a starting event.
LEMMA ReadAuthorisationKeeps ==
  ASSUME Inductive, NEW r \in Request, ReadAuthorisation(r)
  PROVE  Inductive'
  <1>1. PICK q : q = request[r]
    OBVIOUS
  <1>2. q \in RequestRow /\ WellFormed(q) /\ Sound(q)
    BY <1>1, InFlight
  <1> DEFINE c == [q EXCEPT !.at = "readFleet"]
  <1>3. \/ request' = [request EXCEPT ![r] = Idle]
        \/ request' = [request EXCEPT ![r] = c]
    BY <1>1 DEF ReadAuthorisation, Continue
  <1>4. CASE request' = [request EXCEPT ![r] = Idle]
    BY <1>4, IdleSound, Served DEF ReadAuthorisation
  <1>5. CASE request' = [request EXCEPT ![r] = c]
    <2>1. c \in RequestRow /\ WellFormed(c) /\ Sound(c)
      BY <1>1, <1>2, <1>5 DEF ReadAuthorisation, RequestRow, Step, WellFormed, Sound
    <2> QED BY <1>5, <2>1, Served DEF ReadAuthorisation
  <1> QED BY <1>3, <1>4, <1>5

\* Reading the driver and the vehicle of a starting event.
LEMMA ReadFleetKeeps ==
  ASSUME Inductive, NEW r \in Request, ReadFleet(r)
  PROVE  Inductive'
  <1>1. PICK q : q = request[r]
    OBVIOUS
  <1>2. q \in RequestRow /\ WellFormed(q) /\ Sound(q)
    BY <1>1, InFlight
  <1> DEFINE c == [q EXCEPT !.at = "insertEvent"]
  <1>3. \/ request' = [request EXCEPT ![r] = Idle]
        \/ request' = [request EXCEPT ![r] = c]
    BY <1>1 DEF ReadFleet, Continue
  <1>4. CASE request' = [request EXCEPT ![r] = Idle]
    BY <1>4, IdleSound, Served DEF ReadFleet
  <1>5. CASE request' = [request EXCEPT ![r] = c]
    <2>1. c \in RequestRow /\ WellFormed(c) /\ Sound(c)
      BY <1>1, <1>2, <1>5 DEF ReadFleet, RequestRow, Step, WellFormed, Sound
    <2> QED BY <1>5, <2>1, Served DEF ReadFleet
  <1> QED BY <1>3, <1>4, <1>5

\* Reading the status before an attempt.
LEMMA ReadPendingKeeps ==
  ASSUME Inductive, NEW r \in Request, ReadPending(r)
  PROVE  Inductive'
  <1>1. PICK q : q = request[r]
    OBVIOUS
  <1>2. q \in RequestRow /\ WellFormed(q) /\ Sound(q)
    BY <1>1, InFlight
  <1> DEFINE c == [q EXCEPT !.at = "countAttempts"]
  <1>3. \/ request' = [request EXCEPT ![r] = Idle]
        \/ request' = [request EXCEPT ![r] = c]
    BY <1>1 DEF ReadPending, Continue
  <1>4. CASE request' = [request EXCEPT ![r] = Idle]
    BY <1>4, IdleSound, Served DEF ReadPending
  <1>5. CASE request' = [request EXCEPT ![r] = c]
    <2>1. c \in RequestRow /\ WellFormed(c) /\ Sound(c)
      BY <1>1, <1>2, <1>5 DEF ReadPending, RequestRow, Step, WellFormed, Sound
    <2> QED BY <1>5, <2>1, Served DEF ReadPending
  <1> QED BY <1>3, <1>4, <1>5

\* Counting the attempts in the window.
LEMMA CountAttemptsKeeps ==
  ASSUME Inductive, NEW r \in Request, CountAttempts(r)
  PROVE  Inductive'
  <1>1. PICK q : q = request[r]
    OBVIOUS
  <1>2. q \in RequestRow /\ WellFormed(q) /\ Sound(q)
    BY <1>1, InFlight
  <1> DEFINE c == [q EXCEPT !.at = "insertAttempt"]
  <1>3. \/ request' = [request EXCEPT ![r] = Idle]
        \/ request' = [request EXCEPT ![r] = c]
    BY <1>1 DEF CountAttempts, Continue
  <1>4. CASE request' = [request EXCEPT ![r] = Idle]
    BY <1>4, IdleSound, Served DEF CountAttempts
  <1>5. CASE request' = [request EXCEPT ![r] = c]
    <2>1. c \in RequestRow /\ WellFormed(c) /\ Sound(c)
      BY <1>1, <1>2, <1>5 DEF CountAttempts, RequestRow, Step, WellFormed, Sound, Verdict
    <2> QED BY <1>5, <2>1, Served DEF CountAttempts
  <1> QED BY <1>3, <1>4, <1>5

\* Looking for a pending fallback.
LEMMA FindFallbackKeeps ==
  ASSUME Inductive, NEW r \in Request, FindFallback(r)
  PROVE  Inductive'
  <1>1. PICK q : q = request[r]
    OBVIOUS
  <1>2. q \in RequestRow /\ WellFormed(q) /\ Sound(q)
    BY <1>1, InFlight
  <1> DEFINE c == [q EXCEPT !.at = "insertFallback"]
  <1>3. \/ request' = [request EXCEPT ![r] = Idle]
        \/ request' = [request EXCEPT ![r] = c]
    BY <1>1 DEF FindFallback, Continue
  <1>4. CASE request' = [request EXCEPT ![r] = Idle]
    BY <1>4, IdleSound, Served DEF FindFallback
  <1>5. CASE request' = [request EXCEPT ![r] = c]
    <2>1. c \in RequestRow /\ WellFormed(c) /\ Sound(c)
      BY <1>1, <1>2, <1>5 DEF FindFallback, RequestRow, Step, WellFormed, Sound
    <2> QED BY <1>5, <2>1, Served DEF FindFallback
  <1> QED BY <1>3, <1>4, <1>5

\* The gate moves a movement on: never to APPROVED, and only an existing one.
LEMMA StartOrCompleteMovementKeeps ==
  ASSUME Inductive, NEW r \in Request, StartOrCompleteMovement(r)
  PROVE  Inductive'
  <1>1. PICK q : q = request[r]
    OBVIOUS
  <1>2. q \in RequestRow /\ WellFormed(q) /\ q.at = "checkMovement"
    BY <1>1, InFlight DEF StartOrCompleteMovement
  <1> DEFINE c == [q EXCEPT !.at = "writeMovement"]
  <1>3. \/ request' = [request EXCEPT ![r] = Idle]
        \/ /\ <<movement[q.movement].status, q.to>> \in MovementTransitions
           /\ request' = [request EXCEPT ![r] = c]
    BY <1>1 DEF StartOrCompleteMovement, Continue
  <1>4. CASE request' = [request EXCEPT ![r] = Idle]
    BY <1>4, IdleSound, Served DEF StartOrCompleteMovement
  <1>5. CASE /\ <<movement[q.movement].status, q.to>> \in MovementTransitions
             /\ request' = [request EXCEPT ![r] = c]
    <2>1. movement[q.movement].status # "NONE"
      BY <1>5 DEF MovementTransitions
    <2>2. c \in RequestRow /\ WellFormed(c) /\ Sound(c)
      BY <1>2, <2>1 DEF RequestRow, Step, WellFormed, Sound, MovementStatus
    <2> QED BY <1>5, <2>2, Served DEF StartOrCompleteMovement
  <1> QED BY <1>3, <1>4, <1>5

\* A COMPLETED event was CLEARED or DENIED when the table was checked, and an event
\* of either status has been decided.
LEMMA CheckTransitionKeeps ==
  ASSUME Inductive, NEW r \in Request, CheckTransition(r)
  PROVE  Inductive'
  <1>1. PICK q : q = request[r]
    OBVIOUS
  <1>2. q \in RequestRow /\ WellFormed(q) /\ q.at = "checkEvent"
    BY <1>1, InFlight DEF CheckTransition
  <1> DEFINE c == [q EXCEPT !.at = "writeEvent"]
  <1>3. \/ request' = [request EXCEPT ![r] = Idle]
        \/ /\ <<event[q.event].status, q.to>> \in GateEventTransitions
           /\ request' = [request EXCEPT ![r] = c]
    BY <1>1 DEF CheckTransition, Continue
  <1>4. CASE request' = [request EXCEPT ![r] = Idle]
    BY <1>4, IdleSound, Served DEF CheckTransition
  <1>5. CASE /\ <<event[q.event].status, q.to>> \in GateEventTransitions
             /\ request' = [request EXCEPT ![r] = c]
    <2>1. q.to = "COMPLETED" => event[q.event].status \in {"CLEARED", "DENIED"}
      BY <1>5 DEF GateEventTransitions
    <2>2. q.to = "COMPLETED" => event[q.event].decision # "NONE"
      BY <1>2, <2>1 DEF WellFormed, Inductive, Safe, DecisionMatchesStatus
    <2>3. c \in RequestRow /\ WellFormed(c) /\ Sound(c)
      BY <1>2, <2>2 DEF RequestRow, Step, WellFormed, Sound
    <2> QED BY <1>5, <2>3, Served DEF CheckTransition
  <1> QED BY <1>3, <1>4, <1>5

\* Reading the movement of a cleared or completed event.
LEMMA ReadMovementKeeps ==
  ASSUME Inductive, NEW r \in Request, ReadMovement(r)
  PROVE  Inductive'
  <1>1. PICK q : q = request[r]
    OBVIOUS
  <1>2. q \in RequestRow /\ WellFormed(q) /\ q.at = "readMovement"
    BY <1>1, InFlight DEF ReadMovement
  <1> DEFINE c == [q EXCEPT !.at = "checkMovement"]
             d == [q EXCEPT !.at = "findPair"]
  <1>3. \/ request' = [request EXCEPT ![r] = Idle]
        \/ request' = [request EXCEPT ![r] = d]
        \/ request' = [request EXCEPT ![r] = c]
    BY <1>1, <1>2 DEF ReadMovement
  <1>4. CASE request' = [request EXCEPT ![r] = Idle]
    BY <1>4, IdleSound, Served DEF ReadMovement
  <1>5. CASE request' = [request EXCEPT ![r] = d]
    <2>1. d \in RequestRow /\ WellFormed(d) /\ Sound(d)
      BY <1>2 DEF RequestRow, Step, WellFormed, Sound
    <2> QED BY <1>5, <2>1, Served DEF ReadMovement
  <1>6. CASE request' = [request EXCEPT ![r] = c]
    <2>1. c \in RequestRow /\ WellFormed(c) /\ Sound(c)
      BY <1>2, <1>6 DEF RequestRow, Step, WellFormed, Sound
    <2> QED BY <1>6, <2>1, Served DEF ReadMovement
  <1> QED BY <1>3, <1>4, <1>5, <1>6

\* Reading the fallback: an APPROVED one of this event has been resolved.
LEMMA ReadFallbackKeeps ==
  ASSUME Inductive, NEW r \in Request, ReadFallback(r)
  PROVE  Inductive'
  <1>1. PICK q : q = request[r]
    OBVIOUS
  <1>2. q \in RequestRow /\ WellFormed(q) /\ q.at = "readFallback"
    BY <1>1, InFlight DEF ReadFallback
  <1> DEFINE c == [q EXCEPT !.at = "recordIdentity"]
  <1>3. \/ request' = [request EXCEPT ![r] = Idle]
        \/ /\ fallback[q.row].status = "APPROVED" /\ fallback[q.row].event = q.event
           /\ request' = [request EXCEPT ![r] = c]
    BY <1>1 DEF ReadFallback, Continue
  <1>4. CASE request' = [request EXCEPT ![r] = Idle]
    BY <1>4, IdleSound, Served DEF ReadFallback
  <1>5. CASE /\ fallback[q.row].status = "APPROVED" /\ fallback[q.row].event = q.event
             /\ request' = [request EXCEPT ![r] = c]
    <2>1. ResolvedFor(q.row, q.event) /\ q.row \in Fallback
      BY <1>2, <1>5 DEF ResolvedFor, WellFormed, Inductive, RowsSound
    <2>2. c \in RequestRow /\ WellFormed(c)
      BY <1>2 DEF RequestRow, Step, WellFormed
    <2>3. Sound(c)
      BY <1>2, <2>1 DEF RequestRow, Sound, ResolvedFor
    <2> QED BY <1>5, <2>2, <2>3, Served DEF ReadFallback
  <1> QED BY <1>3, <1>4, <1>5

\* Reading the status before an exception is raised from an item.
LEMMA ReadRaisingEventKeeps ==
  ASSUME Inductive, NEW r \in Request, ReadRaisingEvent(r)
  PROVE  Inductive'
  <1>1. PICK q : q = request[r]
    OBVIOUS
  <1>2. q \in RequestRow /\ WellFormed(q) /\ q.at = "readEvent"
    BY <1>1, InFlight DEF ReadRaisingEvent
  <1>3. PICK s : s = event[q.event].status
    OBVIOUS
  <1> DEFINE c == [q EXCEPT !.at = "insertException", !.seen = s]
  <1>4. request' = [request EXCEPT ![r] = c]
    BY <1>1, <1>3 DEF ReadRaisingEvent, Inductive, TypeOK
  <1>5. s \in GateEventStatus \cup {"NONE"}
    BY <1>2, <1>3 DEF WellFormed, Inductive, TypeOK, RowsTypeOK, EventRow
  <1>6. c \in RequestRow
    BY <1>2, <1>5 DEF RequestRow, Step
  <1>7. WellFormed(c)
    BY <1>2 DEF RequestRow, WellFormed
  <1>8. Sound(c)
    BY <1>2 DEF RequestRow, Sound
  <1> QED BY <1>4, <1>6, <1>7, <1>8, Served DEF ReadRaisingEvent

\* The candidate legs are cleared legs of one movement in opposite directions.
LEMMA FindPairKeeps ==
  ASSUME Inductive, NEW r \in Request, FindPair(r)
  PROVE  Inductive'
  <1>1. PICK q : q = request[r]
    OBVIOUS
  <1>2. q \in RequestRow /\ WellFormed(q) /\ q.at = "findPair"
    BY <1>1, InFlight DEF FindPair
  <1>3. CASE request' = [request EXCEPT ![r] = Idle]
    BY <1>3, IdleSound, Served DEF FindPair
  <1>4. ASSUME NEW d \in Event, NEW t \in Event, CandidatePair(q.movement, d, t),
               request' = [request EXCEPT ![r] =
                 [q EXCEPT !.at = "insertPair", !.event = d, !.row = t]]
        PROVE  Inductive'
    <2> DEFINE c == [q EXCEPT !.at = "insertPair", !.event = d, !.row = t]
    <2>1. OutAndBack(q.movement, d, t)
      BY <1>4 DEF CandidatePair, FirstOf, Legs, OppositeLegs, ClearedLeg, OutAndBack
    <2>2. c \in RequestRow
      BY <1>2 DEF RequestRow, Step
    <2>3. /\ c.at = "insertPair" /\ c.event = d /\ c.row = t
          /\ c.movement = q.movement /\ c.user = q.user
      BY <1>2 DEF RequestRow
    <2>4. WellFormed(c)
      BY <1>2, <2>3 DEF WellFormed
    <2>5. Sound(c)
      BY <2>1, <2>3 DEF Sound
    <2> HIDE DEF c
    <2> QED BY <1>4, <2>2, <2>4, <2>5, Served DEF FindPair, c
  <1> QED BY <1>1, <1>3, <1>4 DEF FindPair, Finish

\* A request that dies leaves the rows as they are.
LEMMA CrashKeeps ==
  ASSUME Inductive, NEW r \in Request, Crash(r)
  PROVE  Inductive'
  BY IdleSound, Served DEF Crash, Finish

-------------------------------------------------------------------------------
\* A write to no table an invariant is about.
LEMMA Aside ==
  ASSUME Inductive, UNCHANGED <<movement, event, exception, fallback, reconciliation>>
  PROVE  Keeps /\ RowsSound' /\ Safe'
  <1> USE DEF Inductive
  <1>1. Keeps
    BY DEF Keeps
  <1>2. RowsSound'
    BY DEF RowsSound
  <1>3. Safe'
    BY DEF Safe, SeriousNeedsAnotherUser, ApproverIsNotRequester, DecisionMatchesStatus,
           FallbackNeedsAnotherUser, PairIsOutAndBack
  <1> QED BY <1>1, <1>2, <1>3

\* A write outside every request.
LEMMA Unasked ==
  ASSUME Inductive, Keeps, RowsTypeOK', RowsSound', Safe', UNCHANGED request
  PROVE  Inductive'
  <1>1. ASSUME NEW s \in Request
        PROVE  WellFormed(request[s])' /\ Sound(request[s])'
    <2>1. PICK q : q = request[s]
      OBVIOUS
    <2>2. q \in RequestRow /\ WellFormed(q) /\ Sound(q) /\ RowsSound
      BY <2>1 DEF Inductive, TypeOK
    <2>3. Sound(q)'
      BY <2>2, SoundKept
    <2> QED BY <2>1, <2>2, <2>3 DEF WellFormed, Sound, OutAndBack, ResolvedFor
  <1> QED BY <1>1 DEF Inductive, TypeOK

\* The fleet changes: no invariant is about it.
LEMMA ChangeAvailabilityKeeps ==
  ASSUME Inductive, NEW m \in Movement, ChangeAvailability(m)
  PROVE  Inductive'
  <1>1. RowsTypeOK'
    BY DEF Inductive, TypeOK, RowsTypeOK, ChangeAvailability, others
  <1> QED BY <1>1, Aside, Unasked DEF ChangeAvailability, others

\* An attempt leaves the window: no invariant is about it.
LEMMA WindowPassesKeeps ==
  ASSUME Inductive, NEW k \in Attempt, WindowPasses(k)
  PROVE  Inductive'
  <1>1. RowsTypeOK'
    BY DEF Inductive, TypeOK, RowsTypeOK, WindowPasses, AttemptRow
  <1> QED BY <1>1, Aside, Unasked DEF WindowPasses

-------------------------------------------------------------------------------
(* Movements.                                                              *)

\* A new movement is a DRAFT, so it is not APPROVED.
LEMMA InsertMovementKeeps ==
  ASSUME Inductive, NEW r \in Request, InsertMovement(r)
  PROVE  Inductive'
  <1>1. PICK q : q = request[r]
    OBVIOUS
  <1>2. q \in RequestRow /\ WellFormed(q) /\ q.at = "insertMovement"
    BY <1>1, InFlight DEF InsertMovement
  <1>3. /\ movement' = [movement EXCEPT ![q.movement] =
                          IF @ = NoMovement
                          THEN [@ EXCEPT !.status = "DRAFT", !.requester = q.user]
                          ELSE @]
        /\ request' = [request EXCEPT ![r] = Idle]
        /\ UNCHANGED <<event, earlier, exception, attempt, fallback, reconciliation, available>>
    BY <1>1 DEF InsertMovement, Finish, others
  <1>4. RowsTypeOK'
    BY <1>2, <1>3 DEF Inductive, TypeOK, RowsTypeOK, MovementRow, WellFormed, NoMovement,
                      MovementStatus
  <1>5. Keeps
    BY <1>3 DEF Keeps, Inductive, TypeOK, RowsTypeOK, NoMovement
  <1>6. RowsSound'
    BY <1>3 DEF Inductive, RowsSound
  <1>7. ApproverIsNotRequester'
    BY <1>3 DEF Inductive, Safe, TypeOK, RowsTypeOK, MovementRow, ApproverIsNotRequester
  <1>8. Safe'
    BY <1>3, <1>7 DEF Inductive, Safe, SeriousNeedsAnotherUser, DecisionMatchesStatus,
                      FallbackNeedsAnotherUser, PairIsOutAndBack
  <1> QED BY <1>3, <1>4, <1>5, <1>6, <1>8, IdleSound, IdleStaysSound, Written

\* The update of a movement: an approver recorded with APPROVED is not the requester.
LEMMA WriteMovementKeeps ==
  ASSUME Inductive, NEW r \in Request, WriteMovement(r)
  PROVE  Inductive'
  <1>1. PICK q : q = request[r]
    OBVIOUS
  <1>2. q \in RequestRow /\ WellFormed(q) /\ Sound(q) /\ q.at = "writeMovement"
    BY <1>1, InFlight DEF WriteMovement
  <1> DEFINE c == [q EXCEPT !.at = "findPair"]
  <1>3. /\ movement' = [movement EXCEPT ![q.movement] =
                    [@ EXCEPT !.status = q.to,
                              !.approver = IF q.to \in {"APPROVED", "REJECTED"}
                                           THEN q.user
                                           ELSE movement[q.movement].approver]]
        /\ \/ request' = [request EXCEPT ![r] = Idle]
           \/ request' = [request EXCEPT ![r] = c]
        /\ UNCHANGED <<event, earlier, exception, attempt, fallback, reconciliation, available>>
    BY <1>1 DEF WriteMovement, Continue, others
  <1>4. RowsTypeOK'
    <2>1. q.to \in MovementStatus /\ q.user \in User
      BY <1>2 DEF WellFormed
    <2> DEFINE w == [movement[q.movement] EXCEPT
                       !.status = q.to,
                       !.approver = IF q.to \in {"APPROVED", "REJECTED"} THEN q.user
                                    ELSE movement[q.movement].approver]
    <2>2. ASSUME q.movement \in Movement
          PROVE  w \in MovementRow /\ movement' = [movement EXCEPT ![q.movement] = w]
      <3>1. movement[q.movement] \in MovementRow
        BY <2>2 DEF Inductive, TypeOK, RowsTypeOK
      <3>2. w \in MovementRow
        BY <2>1, <3>1 DEF MovementRow
      <3>3. movement' = [movement EXCEPT ![q.movement] = w]
        BY <1>3, <3>1 DEF MovementRow
      <3> QED BY <3>2, <3>3
    <2>3. movement' \in [Movement -> MovementRow]
      BY <1>3, <2>2 DEF Inductive, TypeOK, RowsTypeOK
    <2> QED BY <1>3, <2>3 DEF Inductive, TypeOK, RowsTypeOK
  <1>5. Keeps
    BY <1>2, <1>3 DEF Keeps, Inductive, TypeOK, RowsTypeOK, MovementRow, WellFormed,
                      MovementStatus
  <1>6. RowsSound'
    BY <1>3 DEF Inductive, RowsSound
  <1>7. ApproverIsNotRequester'
    <2>1. q.user \in User /\ None \notin User
      BY <1>2, NoneAssumption DEF WellFormed, Identifier
    <2> QED BY <1>2, <1>3, <2>1 DEF Sound, Inductive, Safe, TypeOK, RowsTypeOK, MovementRow,
                                    ApproverIsNotRequester
  <1>8. Safe'
    BY <1>3, <1>7 DEF Inductive, Safe, SeriousNeedsAnotherUser, DecisionMatchesStatus,
                      FallbackNeedsAnotherUser, PairIsOutAndBack
  <1>9. c \in RequestRow /\ WellFormed(c) /\ Sound(c)'
    BY <1>2 DEF RequestRow, Step, WellFormed, Sound
  <1> QED BY <1>3, <1>4, <1>5, <1>6, <1>8, <1>9, IdleSound, IdleStaysSound, Written

-------------------------------------------------------------------------------
(* Gate events.                                                            *)

\* A new event takes a free row, which no request and no pair refers to.
LEMMA InsertGateEventKeeps ==
  ASSUME Inductive, NEW r \in Request, InsertGateEvent(r)
  PROVE  Inductive'
  <1>1. PICK q : q = request[r]
    OBVIOUS
  <1>2. q \in RequestRow /\ WellFormed(q) /\ Sound(q) /\ q.at = "insertEvent"
    BY <1>1, InFlight DEF InsertGateEvent
  <1>3. CASE UNCHANGED event /\ request' = [request EXCEPT ![r] = Idle]
    BY <1>3, IdleSound, Served DEF InsertGateEvent, rows
  <1>4. ASSUME NEW e \in Event, ~Exists(e),
               event' = [event EXCEPT ![e] = [NoEvent EXCEPT !.status = "EXPECTED",
                                                             !.movement = q.movement,
                                                             !.direction = q.arg]],
               request' = [request EXCEPT ![r] = [q EXCEPT !.at = "checkEvent", !.event = e,
                                                          !.to = "INSPECTION_STARTED"]]
        PROVE  Inductive'
    <2> DEFINE c == [q EXCEPT !.at = "checkEvent", !.event = e, !.to = "INSPECTION_STARTED"]
    <2>1. UNCHANGED <<movement, available, earlier, exception, attempt, fallback, reconciliation>>
      BY DEF InsertGateEvent
    <2>2. event[e] = NoEvent
      BY <1>4 DEF Exists
    <2>3. RowsTypeOK'
      <3>1. q.movement \in Movement \cup {None} /\ q.arg \in Direction
        BY <1>2 DEF RequestRow, WellFormed
      <3>2. event' \in [Event -> EventRow]
        BY <1>4, <3>1 DEF Inductive, TypeOK, RowsTypeOK, EventRow, NoEvent, GateEventStatus
      <3> QED BY <2>1, <3>2 DEF Inductive, TypeOK, RowsTypeOK
    <2>4. \A f \in Event : f # e => event'[f] = event[f]
      BY <1>4 DEF Inductive, TypeOK, RowsTypeOK
    <2>5. event'[e].status = "EXPECTED" /\ event'[e].identity = "NONE"
      BY <1>4 DEF Inductive, TypeOK, RowsTypeOK, NoEvent
    <2>6. event[e].decision = "NONE"
      BY <2>2 DEF NoEvent
    <2>7. Keeps
      BY <2>1, <2>4, <2>6 DEF Keeps
    <2>8. RowsSound'
      BY <2>1 DEF Inductive, RowsSound
    <2>9. DecisionMatchesStatus'
      BY <2>4, <2>5 DEF Inductive, Safe, DecisionMatchesStatus
    <2>10. FallbackNeedsAnotherUser'
      BY <2>1, <2>4, <2>5 DEF Inductive, Safe, FallbackNeedsAnotherUser
    <2>11. PairIsOutAndBack'
      BY <2>1, <2>4, <2>6 DEF Inductive, Safe, PairIsOutAndBack, RowsSound
    <2>12. Safe'
      BY <2>1, <2>9, <2>10, <2>11 DEF Inductive, Safe, SeriousNeedsAnotherUser,
                                      ApproverIsNotRequester
    <2>13. c \in RequestRow
      BY <1>2 DEF RequestRow, Step, GateEventStatus
    <2>14. WellFormed(c) /\ Sound(c)'
      BY <1>2 DEF RequestRow, WellFormed, Sound, GateEventStatus
    <2> QED BY <1>4, <2>3, <2>7, <2>8, <2>12, <2>13, <2>14, Written
  <1> QED BY <1>1, <1>3, <1>4 DEF InsertGateEvent, Finish, Inductive, TypeOK

\* The update of an event: its decision follows its status, and what was decided stays so.
LEMMA WriteTransitionKeeps ==
  ASSUME Inductive, NEW r \in Request, WriteTransition(r)
  PROVE  Inductive'
  <1>1. PICK q : q = request[r]
    OBVIOUS
  <1>2. q \in RequestRow /\ WellFormed(q) /\ Sound(q) /\ q.at = "writeEvent"
    BY <1>1, InFlight DEF WriteTransition
  <1>3. PICK m : m = event[q.event].movement
    OBVIOUS
  <1> DEFINE b == [q EXCEPT !.at = "readMovement", !.movement = m, !.to = "IN_PROGRESS"]
             c == [q EXCEPT !.at = "readMovement", !.movement = m, !.to = "COMPLETED"]
             d == [q EXCEPT !.at = "findPair", !.movement = m]
  <1>4. /\ event' = [event EXCEPT ![q.event] =
                 [@ EXCEPT !.status = q.to,
                           !.decision = DecisionAfter(q.to, event[q.event].decision)]]
        /\ UNCHANGED <<movement, available, exception, attempt, fallback, reconciliation>>
    BY <1>1 DEF WriteTransition
  <1>5. \/ request' = [request EXCEPT ![r] = Idle]
        \/ request' = [request EXCEPT ![r] = b]
        \/ request' = [request EXCEPT ![r] = c]
        \/ request' = [request EXCEPT ![r] = d]
    BY <1>1, <1>3 DEF WriteTransition
  <1>6. q.event \in Event /\ q.to \in GateEventStatus
    BY <1>2 DEF WellFormed
  <1> DEFINE w == [event[q.event] EXCEPT
                     !.status = q.to,
                     !.decision = DecisionAfter(q.to, event[q.event].decision)]
  <1>25. event[q.event] \in EventRow
    BY <1>6 DEF Inductive, TypeOK, RowsTypeOK
  <1>26. event' = [event EXCEPT ![q.event] = w]
    BY <1>4, <1>25 DEF EventRow
  <1>7. RowsTypeOK'
    <2>3. w \in EventRow
      BY <1>6, <1>25 DEF EventRow, DecisionAfter
    <2>1. event' \in [Event -> EventRow]
      BY <1>26, <2>3 DEF Inductive, TypeOK, RowsTypeOK
    <2>2. earlier' \in [Event -> SUBSET Event]
      BY <1>1 DEF WriteTransition, Inductive, TypeOK, RowsTypeOK
    <2> QED BY <1>4, <2>1, <2>2 DEF Inductive, TypeOK, RowsTypeOK
  <1>8. \A e \in Event :
          /\ event'[e].movement = event[e].movement
          /\ event'[e].direction = event[e].direction
          /\ event'[e].identity = event[e].identity
          /\ e # q.event => event'[e] = event[e]
    BY <1>4 DEF Inductive, TypeOK, RowsTypeOK, EventRow
  <1>9. /\ event'[q.event].status = q.to
        /\ event'[q.event].decision = DecisionAfter(q.to, event[q.event].decision)
    <2>1. event'[q.event] = w
      BY <1>6, <1>26 DEF Inductive, TypeOK, RowsTypeOK
    <2> QED BY <1>25, <2>1 DEF EventRow
  <1>10. \A e \in Event : event[e].decision # "NONE" => event'[e].decision # "NONE"
    BY <1>6, <1>8, <1>9 DEF DecisionAfter
  <1>11. Keeps
    BY <1>4, <1>8, <1>10 DEF Keeps
  <1>12. RowsSound'
    BY <1>4 DEF Inductive, RowsSound
  <1>13. DecisionMatchesStatus'
    <2>1. q.to = "COMPLETED" => event[q.event].decision # "NONE"
      BY <1>2 DEF Sound
    <2> QED BY <1>8, <1>9, <2>1 DEF Inductive, Safe, DecisionMatchesStatus, DecisionAfter
  <1>14. FallbackNeedsAnotherUser'
    BY <1>4, <1>8 DEF Inductive, Safe, FallbackNeedsAnotherUser
  <1>15. PairIsOutAndBack'
    BY <1>4, <1>8, <1>10 DEF Inductive, Safe, PairIsOutAndBack, RowsSound
  <1>16. Safe'
    BY <1>4, <1>13, <1>14, <1>15 DEF Inductive, Safe, SeriousNeedsAnotherUser,
                                     ApproverIsNotRequester
  <1>17. m \in Movement \cup {None}
    BY <1>3, <1>6 DEF Inductive, TypeOK, RowsTypeOK, EventRow
  <1>18. b \in RequestRow /\ WellFormed(b) /\ Sound(b)'
    <2>1. b \in RequestRow
      BY <1>2, <1>17 DEF RequestRow, Step, MovementStatus
    <2>2. WellFormed(b) /\ Sound(b)'
      BY <1>2 DEF RequestRow, WellFormed, Sound
    <2> QED BY <2>1, <2>2
  <1>19. c \in RequestRow /\ WellFormed(c) /\ Sound(c)'
    <2>1. c \in RequestRow
      BY <1>2, <1>17 DEF RequestRow, Step, MovementStatus
    <2>2. WellFormed(c) /\ Sound(c)'
      BY <1>2 DEF RequestRow, WellFormed, Sound
    <2> QED BY <2>1, <2>2
  <1>20. d \in RequestRow /\ WellFormed(d) /\ Sound(d)'
    <2>1. d \in RequestRow
      BY <1>2, <1>17 DEF RequestRow, Step
    <2>2. WellFormed(d) /\ Sound(d)'
      BY <1>2 DEF RequestRow, WellFormed, Sound
    <2> QED BY <2>1, <2>2
  <1>21. CASE request' = [request EXCEPT ![r] = Idle]
    BY <1>7, <1>11, <1>12, <1>16, <1>21, IdleSound, IdleStaysSound, Written
  <1>22. CASE request' = [request EXCEPT ![r] = b]
    BY <1>7, <1>11, <1>12, <1>16, <1>18, <1>22, Written
  <1>23. CASE request' = [request EXCEPT ![r] = c]
    BY <1>7, <1>11, <1>12, <1>16, <1>19, <1>23, Written
  <1>24. CASE request' = [request EXCEPT ![r] = d]
    BY <1>7, <1>11, <1>12, <1>16, <1>20, <1>24, Written
  <1> QED BY <1>5, <1>21, <1>22, <1>23, <1>24


-------------------------------------------------------------------------------
(* The identity of the driver.                                             *)

\* A new attempt: no invariant is about the rows it changes.
LEMMA InsertAttemptKeeps ==
  ASSUME Inductive, NEW r \in Request, InsertAttempt(r)
  PROVE  Inductive'
  <1>1. PICK q : q = request[r]
    OBVIOUS
  <1>2. q \in RequestRow /\ WellFormed(q) /\ Sound(q) /\ q.at = "insertAttempt"
    BY <1>1, InFlight DEF InsertAttempt
  <1> DEFINE c == [q EXCEPT !.at = "recordIdentity"]
  <1>3. \/ request' = [request EXCEPT ![r] = Idle]
        \/ request' = [request EXCEPT ![r] = c]
    BY <1>1 DEF InsertAttempt, Continue
  <1>4. RowsTypeOK'
    <2>1. q.event \in Event
      BY <1>2 DEF WellFormed
    <2>2. attempt' \in [Attempt -> AttemptRow]
      BY <1>1, <2>1 DEF InsertAttempt, Inductive, TypeOK, RowsTypeOK, AttemptRow
    <2> QED BY <2>2 DEF InsertAttempt, Inductive, TypeOK, RowsTypeOK
  <1>5. Keeps /\ RowsSound' /\ Safe'
    BY Aside DEF InsertAttempt
  <1>6. c \in RequestRow
    BY <1>2 DEF RequestRow, Step
  <1>7. WellFormed(c) /\ Sound(c)'
    BY <1>2 DEF RequestRow, WellFormed, Sound, Verdict, Identity
  <1> QED BY <1>3, <1>4, <1>5, <1>6, <1>7, IdleSound, IdleStaysSound, Written

\* The identity columns: a manual outcome rests on a resolved fallback.
LEMMA RecordIdentityKeeps ==
  ASSUME Inductive, NEW r \in Request, RecordIdentity(r)
  PROVE  Inductive'
  <1>1. PICK q : q = request[r]
    OBVIOUS
  <1>2. q \in RequestRow /\ WellFormed(q) /\ Sound(q) /\ q.at = "recordIdentity"
    BY <1>1, InFlight DEF RecordIdentity
  <1> DEFINE c == [q EXCEPT !.at = "checkEvent", !.to = "IDENTITY_VERIFIED"]
  <1>3. \/ request' = [request EXCEPT ![r] = Idle]
        \/ request' = [request EXCEPT ![r] = c]
    BY <1>1 DEF RecordIdentity
  <1>4. /\ event' = [event EXCEPT ![q.event].identity = q.arg]
        /\ UNCHANGED <<movement, available, earlier, exception, attempt, fallback, reconciliation>>
    BY <1>1 DEF RecordIdentity
  <1>5. q.event \in Event /\ q.arg \in Identity
    BY <1>2 DEF WellFormed
  <1>6. RowsTypeOK'
    <2>1. event[q.event] \in EventRow
      BY <1>5 DEF Inductive, TypeOK, RowsTypeOK
    <2>2. [event[q.event] EXCEPT !.identity = q.arg] \in EventRow
      BY <1>5, <2>1 DEF EventRow
    <2>3. event' \in [Event -> EventRow]
      BY <1>4, <2>2 DEF Inductive, TypeOK, RowsTypeOK
    <2> QED BY <1>4, <2>3 DEF Inductive, TypeOK, RowsTypeOK
  <1>7. \A e \in Event :
          /\ event'[e].movement = event[e].movement
          /\ event'[e].direction = event[e].direction
          /\ event'[e].status = event[e].status
          /\ event'[e].decision = event[e].decision
          /\ event'[e].identity = IF e = q.event THEN q.arg ELSE event[e].identity
    BY <1>4, <1>5 DEF Inductive, TypeOK, RowsTypeOK, EventRow
  <1>8. Keeps
    BY <1>4, <1>7 DEF Keeps
  <1>9. RowsSound'
    BY <1>4 DEF Inductive, RowsSound
  <1>10. FallbackNeedsAnotherUser'
    <2>1. q.arg = "MANUAL_FALLBACK_APPROVED" =>
            \E f \in Fallback : fallback[f].event = q.event /\ fallback[f].approvedBy # None
      BY <1>2 DEF Sound, ResolvedFor
    <2> QED BY <1>4, <1>7, <2>1 DEF Inductive, Safe, FallbackNeedsAnotherUser
  <1>11. DecisionMatchesStatus' /\ PairIsOutAndBack'
    BY <1>4, <1>7 DEF Inductive, Safe, DecisionMatchesStatus, PairIsOutAndBack, RowsSound
  <1>12. Safe'
    BY <1>4, <1>10, <1>11 DEF Inductive, Safe, SeriousNeedsAnotherUser,
                              ApproverIsNotRequester
  <1>13. c \in RequestRow
    BY <1>2 DEF RequestRow, Step, GateEventStatus
  <1>14. WellFormed(c) /\ Sound(c)'
    BY <1>2 DEF RequestRow, WellFormed, Sound, GateEventStatus
  <1> QED BY <1>3, <1>6, <1>8, <1>9, <1>12, <1>13, <1>14, IdleSound, IdleStaysSound, Written

\* What a write to the fallback table alone leaves to show.
LEMMA FallbackWritten ==
  ASSUME Inductive, UNCHANGED <<movement, event, exception, reconciliation>>,
         \A f \in Fallback :
           /\ fallback[f].status # "NONE" =>
                /\ fallback'[f].status # "NONE"
                /\ fallback'[f].event = fallback[f].event
                /\ fallback'[f].requestedBy = fallback[f].requestedBy
                /\ fallback[f].approvedBy # None => fallback'[f].approvedBy # None
           /\ fallback'[f].status = "NONE" => fallback'[f] = NoFallback
           /\ fallback'[f].status = "APPROVED" => fallback'[f].approvedBy # None
           /\ fallback'[f].approvedBy # None =>
                fallback'[f].approvedBy # fallback'[f].requestedBy
  PROVE  Keeps /\ RowsSound' /\ Safe'
  <1>1. Keeps
    BY DEF Keeps
  <1>2. RowsSound'
    BY DEF Inductive, RowsSound
  <1>3. ASSUME NEW e \in Event, event'[e].identity = "MANUAL_FALLBACK_APPROVED"
        PROVE  \E f \in Fallback : fallback'[f].event = e /\ fallback'[f].approvedBy # None
    <2>1. PICK f \in Fallback : fallback[f].event = e /\ fallback[f].approvedBy # None
      BY <1>3 DEF Inductive, Safe, FallbackNeedsAnotherUser
    <2>2. fallback[f].status # "NONE"
      BY <2>1 DEF Inductive, RowsSound, NoFallback
    <2> QED BY <2>1, <2>2
  <1>4. Safe'
    BY <1>3 DEF Inductive, Safe, SeriousNeedsAnotherUser, ApproverIsNotRequester,
                DecisionMatchesStatus, FallbackNeedsAnotherUser, PairIsOutAndBack
  <1> QED BY <1>1, <1>2, <1>4

\* A new fallback is pending and takes a free row.
LEMMA InsertFallbackKeeps ==
  ASSUME Inductive, NEW r \in Request, InsertFallback(r)
  PROVE  Inductive'
  <1>1. PICK q : q = request[r]
    OBVIOUS
  <1>2. q \in RequestRow /\ WellFormed(q) /\ Sound(q) /\ q.at = "insertFallback"
    BY <1>1, InFlight DEF InsertFallback
  <1>3. CASE UNCHANGED fallback
    BY <1>3, IdleSound, Served DEF InsertFallback, Finish, rows
  <1>4. ASSUME NEW f \in Fallback, fallback[f] = NoFallback,
               fallback' = [fallback EXCEPT ![f] =
                             [event |-> q.event, status |-> "PENDING",
                              requestedBy |-> q.user, approvedBy |-> None]]
        PROVE  Inductive'
    <2>1. q.event \in Event /\ q.user \in User
      BY <1>2 DEF WellFormed
    <2>2. RowsTypeOK'
      <3>1. fallback' \in [Fallback -> FallbackRow]
        BY <1>4, <2>1 DEF Inductive, TypeOK, RowsTypeOK, FallbackRow
      <3> QED BY <3>1 DEF InsertFallback, Inductive, TypeOK, RowsTypeOK
    <2>3. Keeps /\ RowsSound' /\ Safe'
      <3>1. \A g \in Fallback : g # f => fallback'[g] = fallback[g]
        BY <1>4 DEF Inductive, TypeOK, RowsTypeOK
      <3>2. /\ fallback'[f].status = "PENDING" /\ fallback'[f].approvedBy = None
            /\ fallback[f].status = "NONE"
        BY <1>4 DEF Inductive, TypeOK, RowsTypeOK, NoFallback
      <3>3. \A g \in Fallback :
              /\ fallback[g].status = "NONE" => fallback[g] = NoFallback
              /\ fallback[g].status = "APPROVED" => fallback[g].approvedBy # None
              /\ fallback[g].approvedBy # None =>
                   fallback[g].approvedBy # fallback[g].requestedBy
        BY DEF Inductive, RowsSound, Safe, FallbackNeedsAnotherUser
      <3>4. UNCHANGED <<movement, event, exception, reconciliation>>
        BY DEF InsertFallback
      <3>5. ASSUME NEW g \in Fallback
            PROVE  /\ fallback[g].status # "NONE" =>
                       /\ fallback'[g].status # "NONE"
                       /\ fallback'[g].event = fallback[g].event
                       /\ fallback'[g].requestedBy = fallback[g].requestedBy
                       /\ fallback[g].approvedBy # None => fallback'[g].approvedBy # None
                   /\ fallback'[g].status = "NONE" => fallback'[g] = NoFallback
                   /\ fallback'[g].status = "APPROVED" => fallback'[g].approvedBy # None
                   /\ fallback'[g].approvedBy # None =>
                        fallback'[g].approvedBy # fallback'[g].requestedBy
        <4>1. CASE g = f
          BY <4>1, <3>2
        <4>2. CASE g # f
          BY <4>2, <3>1, <3>3
        <4> QED BY <4>1, <4>2
      <3> QED BY <3>4, <3>5, FallbackWritten
    <2> QED BY <2>2, <2>3, IdleSound, IdleStaysSound, Written DEF InsertFallback, Finish
  <1> QED BY <1>1, <1>3, <1>4 DEF InsertFallback

\* A fallback is resolved by the user who was checked against its requester.
LEMMA WriteFallbackKeeps ==
  ASSUME Inductive, NEW r \in Request, WriteFallback(r)
  PROVE  Inductive'
  <1>1. PICK q : q = request[r]
    OBVIOUS
  <1>2. q \in RequestRow /\ WellFormed(q) /\ Sound(q) /\ q.at = "writeFallback"
    BY <1>1, InFlight DEF WriteFallback
  <1>3. fallback' = [fallback EXCEPT ![q.row] =
                       [@ EXCEPT !.status = q.to, !.approvedBy = q.user]]
    BY <1>1 DEF WriteFallback
  <1>4. /\ q.row \in Fallback /\ q.to \in {"APPROVED", "DENIED"}
        /\ q.user \in User /\ q.user # None
        /\ fallback[q.row].requestedBy # q.user
    BY <1>2, NoneAssumption DEF WellFormed, Sound, Identifier
  <1>5. RowsTypeOK'
    <2>1. fallback \in [Fallback -> FallbackRow] /\ fallback[q.row] \in FallbackRow
      BY <1>4 DEF Inductive, TypeOK, RowsTypeOK
    <2> DEFINE Answered(g) == [g EXCEPT !.status = q.to, !.approvedBy = q.user]
    <2>2. \A g \in FallbackRow : Answered(g) \in FallbackRow
      BY <1>4 DEF FallbackRow
    <2>3. fallback' = [fallback EXCEPT ![q.row] = Answered(fallback[q.row])]
      BY <1>3
    <2> HIDE DEF Answered
    <2>4. fallback' \in [Fallback -> FallbackRow]
      BY <2>1, <2>2, <2>3
    <2> QED BY <2>4 DEF WriteFallback, Inductive, TypeOK, RowsTypeOK
  <1>6. Keeps /\ RowsSound' /\ Safe'
    <2>1. \A g \in Fallback : g # q.row => fallback'[g] = fallback[g]
      BY <1>3 DEF Inductive, TypeOK, RowsTypeOK
    <2>2. /\ fallback'[q.row].status = q.to /\ fallback'[q.row].approvedBy = q.user
          /\ fallback'[q.row].event = fallback[q.row].event
          /\ fallback'[q.row].requestedBy = fallback[q.row].requestedBy
      BY <1>3, <1>4 DEF Inductive, TypeOK, RowsTypeOK, FallbackRow
    <2>3. ASSUME NEW g \in Fallback
          PROVE  /\ fallback[g].status # "NONE" =>
                     /\ fallback'[g].status # "NONE"
                     /\ fallback'[g].event = fallback[g].event
                     /\ fallback'[g].requestedBy = fallback[g].requestedBy
                     /\ fallback[g].approvedBy # None => fallback'[g].approvedBy # None
                 /\ fallback'[g].status = "NONE" => fallback'[g] = NoFallback
                 /\ fallback'[g].status = "APPROVED" => fallback'[g].approvedBy # None
                 /\ fallback'[g].approvedBy # None =>
                      fallback'[g].approvedBy # fallback'[g].requestedBy
      <3>1. CASE g = q.row
        BY <3>1, <1>4, <2>2
      <3>2. CASE g # q.row
        BY <3>2, <2>1 DEF Inductive, RowsSound, Safe, FallbackNeedsAnotherUser
      <3> QED BY <3>1, <3>2
    <2>4. UNCHANGED <<movement, event, exception, reconciliation>>
      BY DEF WriteFallback
    <2> QED BY <2>3, <2>4, FallbackWritten
  <1> QED BY <1>5, <1>6, IdleSound, IdleStaysSound, Written DEF WriteFallback, Finish


-------------------------------------------------------------------------------
(* The inspection, the exceptions and the pairing.                         *)

\* An inspection item is recorded: no invariant is about it.
LEMMA WriteItemKeeps ==
  ASSUME Inductive, NEW r \in Request, WriteItem(r)
  PROVE  Inductive'
  <1>1. PICK q : q = request[r]
    OBVIOUS
  <1>2. q \in RequestRow /\ WellFormed(q) /\ Sound(q) /\ q.at = "writeItem"
    BY <1>1, InFlight DEF WriteItem
  <1> DEFINE c == [q EXCEPT !.at = "readEvent"]
  <1>3. /\ event' = [event EXCEPT ![q.event].item = q.arg]
        /\ UNCHANGED <<movement, available, earlier, exception, attempt, fallback, reconciliation>>
        /\ \/ request' = [request EXCEPT ![r] = Idle]
           \/ request' = [request EXCEPT ![r] = c]
    BY <1>1 DEF WriteItem, Continue
  <1>4. q.event \in Event /\ q.arg \in Outcome
    BY <1>2 DEF WellFormed
  <1>5. RowsTypeOK'
    <2>1. event[q.event] \in EventRow
      BY <1>4 DEF Inductive, TypeOK, RowsTypeOK
    <2>2. [event[q.event] EXCEPT !.item = q.arg] \in EventRow
      BY <1>4, <2>1 DEF EventRow
    <2>3. event' \in [Event -> EventRow]
      BY <1>3, <2>2 DEF Inductive, TypeOK, RowsTypeOK
    <2> QED BY <1>3, <2>3 DEF Inductive, TypeOK, RowsTypeOK
  <1>6. \A e \in Event :
          /\ event'[e].movement = event[e].movement
          /\ event'[e].direction = event[e].direction
          /\ event'[e].status = event[e].status
          /\ event'[e].decision = event[e].decision
          /\ event'[e].identity = event[e].identity
    BY <1>3, <1>4 DEF Inductive, TypeOK, RowsTypeOK, EventRow
  <1>7. Keeps
    BY <1>3, <1>6 DEF Keeps
  <1>8. RowsSound'
    BY <1>3 DEF Inductive, RowsSound
  <1>9. Safe'
    BY <1>3, <1>6 DEF Inductive, RowsSound, Safe, SeriousNeedsAnotherUser,
                      ApproverIsNotRequester, DecisionMatchesStatus,
                      FallbackNeedsAnotherUser, PairIsOutAndBack
  <1>10. c \in RequestRow
    BY <1>2 DEF RequestRow, Step
  <1>11. WellFormed(c) /\ Sound(c)'
    BY <1>2 DEF RequestRow, WellFormed, Sound
  <1> QED BY <1>3, <1>5, <1>7, <1>8, <1>9, <1>10, <1>11, IdleSound, IdleStaysSound, Written

\* What a write to the exception table alone leaves to show.
LEMMA ExceptionWritten ==
  ASSUME Inductive, UNCHANGED <<movement, event, fallback, reconciliation>>,
         \A x \in Exception :
           /\ exception[x].event # None =>
                /\ exception'[x].event # None
                /\ exception'[x].serious = exception[x].serious
                /\ exception'[x].raisedBy = exception[x].raisedBy
           /\ exception'[x].event = None => exception'[x] = NoException
           /\ exception'[x].serious =>
                exception'[x].resolvedBy \notin {exception'[x].raisedBy} \ {None}
  PROVE  Keeps /\ RowsSound' /\ Safe'
  <1>1. Keeps
    BY DEF Keeps
  <1>2. RowsSound'
    BY DEF Inductive, RowsSound
  <1>3. Safe'
    BY DEF Inductive, Safe, SeriousNeedsAnotherUser, ApproverIsNotRequester,
           DecisionMatchesStatus, FallbackNeedsAnotherUser, PairIsOutAndBack
  <1> QED BY <1>1, <1>2, <1>3

\* An exception put on a free row, as both callers do.
LEMMA ExceptionInserted ==
  ASSUME Inductive, UNCHANGED <<movement, event, fallback, reconciliation>>,
         UNCHANGED <<available, earlier, attempt>>,
         NEW x \in Exception, exception[x] = NoException,
         NEW e \in Event, NEW u \in User, NEW serious \in BOOLEAN, NEW item \in BOOLEAN,
         exception' = [exception EXCEPT ![x] = RaisedException(e, u, serious, item)]
  PROVE  RowsTypeOK' /\ Keeps /\ RowsSound' /\ Safe'
  <1>1. e # None
    BY NoneAssumption DEF Identifier
  <1>2. \A y \in Exception : y # x => exception'[y] = exception[y]
    BY DEF Inductive, TypeOK, RowsTypeOK
  <1>3. /\ exception'[x].event = e /\ exception'[x].resolvedBy = None
        /\ exception[x].event = None
    BY DEF Inductive, TypeOK, RowsTypeOK, NoException, RaisedException
  <1>4. ASSUME NEW y \in Exception
        PROVE  /\ exception[y].event # None =>
                    /\ exception'[y].event # None
                    /\ exception'[y].serious = exception[y].serious
                    /\ exception'[y].raisedBy = exception[y].raisedBy
               /\ exception'[y].event = None => exception'[y] = NoException
               /\ exception'[y].serious =>
                    exception'[y].resolvedBy \notin {exception'[y].raisedBy} \ {None}
    <2>1. CASE y = x
      BY <2>1, <1>1, <1>3
    <2>2. CASE y # x
      BY <2>2, <1>2 DEF Inductive, RowsSound, Safe, SeriousNeedsAnotherUser
    <2> QED BY <2>1, <2>2
  <1>5. RowsTypeOK'
    <2>1. exception' \in [Exception -> ExceptionRow]
      BY DEF Inductive, TypeOK, RowsTypeOK, ExceptionRow, NoException, RaisedException
    <2> QED BY <2>1 DEF Inductive, TypeOK, RowsTypeOK
  <1> QED BY <1>4, <1>5, ExceptionWritten

\* A new exception takes a free row.
LEMMA InsertExceptionKeeps ==
  ASSUME Inductive, NEW r \in Request, InsertException(r)
  PROVE  Inductive'
  <1>1. PICK q : q = request[r]
    OBVIOUS
  <1>2. q \in RequestRow /\ WellFormed(q) /\ Sound(q) /\ q.at = "insertException"
    BY <1>1, InFlight DEF InsertException
  <1> DEFINE c == [q EXCEPT !.at = "checkEvent", !.to = "EXCEPTION_RAISED"]
  <1>3. \/ request' = [request EXCEPT ![r] = Idle]
        \/ request' = [request EXCEPT ![r] = c]
    BY <1>1 DEF InsertException
  <1>4. RowsTypeOK' /\ Keeps /\ RowsSound' /\ Safe'
    <2>1. CASE UNCHANGED exception
      <3>1. UNCHANGED rows
        BY <2>1 DEF InsertException, rows
      <3> QED BY <3>1, Still
    <2>2. ASSUME NEW x \in Exception, exception[x] = NoException,
                 exception' = [exception EXCEPT ![x] =
                   RaisedException(q.event, q.user, q.arg = "FAIL_SERIOUS",
                                   q.op = "inspect")]
          PROVE  RowsTypeOK' /\ Keeps /\ RowsSound' /\ Safe'
      <3>1. (q.arg = "FAIL_SERIOUS") \in BOOLEAN /\ (q.op = "inspect") \in BOOLEAN
        OBVIOUS
      <3>2. q.event \in Event /\ q.user \in User
        BY <1>2 DEF WellFormed
      <3>3. /\ UNCHANGED <<movement, event, fallback, reconciliation>>
            /\ UNCHANGED <<available, earlier, attempt>>
        BY DEF InsertException
      <3> QED BY <2>2, <3>1, <3>2, <3>3, ExceptionInserted, ZenonT(30)
    <2> QED BY <1>1, <2>1, <2>2 DEF InsertException
  <1>5. c \in RequestRow
    BY <1>2 DEF RequestRow, Step, GateEventStatus
  <1>6. WellFormed(c) /\ Sound(c)'
    BY <1>2 DEF RequestRow, WellFormed, Sound, GateEventStatus
  <1> QED BY <1>3, <1>4, <1>5, <1>6, IdleSound, IdleStaysSound, Written

\* A resolution by the user who was checked against the raiser.
LEMMA WriteResolutionKeeps ==
  ASSUME Inductive, NEW r \in Request, WriteResolution(r)
  PROVE  Inductive'
  <1>1. PICK q : q = request[r]
    OBVIOUS
  <1>2. q \in RequestRow /\ WellFormed(q) /\ Sound(q) /\ q.at = "writeResolution"
    BY <1>1, InFlight DEF WriteResolution
  <1> DEFINE t == IF q.arg \in BlockOutcome THEN "DENIED" ELSE "VEHICLE_CHECKS_IN_PROGRESS"
             c == [q EXCEPT !.at = "checkEvent", !.to = t]
  <1>3. /\ exception' = [exception EXCEPT ![q.row] =
                          [@ EXCEPT !.resolvedBy = q.user, !.outcome = q.arg]]
        /\ UNCHANGED <<movement, available, event, earlier, attempt, fallback, reconciliation>>
    BY <1>1 DEF WriteResolution
  <1>4. request' = [request EXCEPT ![r] = c]
    BY <1>1 DEF WriteResolution, Inductive, TypeOK
  <1>5. /\ q.row \in Exception /\ q.user \in User
        /\ q.arg \in ContinueOutcome \cup BlockOutcome
        /\ exception[q.row].event # None
        /\ exception[q.row].serious => exception[q.row].raisedBy # q.user
    BY <1>2 DEF WellFormed, Sound
  <1>6. exception[q.row] \in ExceptionRow
    BY <1>5 DEF Inductive, TypeOK, RowsTypeOK
  <1>7. RowsTypeOK'
    <2>1. [exception[q.row] EXCEPT !.resolvedBy = q.user, !.outcome = q.arg] \in ExceptionRow
      BY <1>5, <1>6 DEF ExceptionRow
    <2>2. exception' \in [Exception -> ExceptionRow]
      BY <1>3, <2>1 DEF Inductive, TypeOK, RowsTypeOK
    <2> QED BY <1>3, <2>2 DEF Inductive, TypeOK, RowsTypeOK
  <1>8. ASSUME NEW y \in Exception
        PROVE  /\ exception[y].event # None =>
                    /\ exception'[y].event # None
                    /\ exception'[y].serious = exception[y].serious
                    /\ exception'[y].raisedBy = exception[y].raisedBy
               /\ exception'[y].event = None => exception'[y] = NoException
               /\ exception'[y].serious =>
                    exception'[y].resolvedBy \notin {exception'[y].raisedBy} \ {None}
    <2>1. CASE y = q.row
      <3>1. /\ exception'[y].event = exception[y].event
            /\ exception'[y].serious = exception[y].serious
            /\ exception'[y].raisedBy = exception[y].raisedBy
            /\ exception'[y].resolvedBy = q.user
        BY <2>1, <1>3, <1>5, <1>6 DEF Inductive, TypeOK, RowsTypeOK, ExceptionRow
      <3> QED BY <2>1, <3>1, <1>5
    <2>2. CASE y # q.row
      <3>1. exception'[y] = exception[y]
        BY <2>2, <1>3 DEF Inductive, TypeOK, RowsTypeOK
      <3> QED BY <3>1 DEF Inductive, RowsSound, Safe, SeriousNeedsAnotherUser
    <2> QED BY <2>1, <2>2
  <1>9. Keeps /\ RowsSound' /\ Safe'
    BY <1>3, <1>8, ExceptionWritten
  <1>10. t \in GateEventStatus
    BY DEF GateEventStatus
  <1> HIDE DEF t
  <1>11. c \in RequestRow
    BY <1>2, <1>10 DEF RequestRow, Step
  <1>12. c.at = "checkEvent" /\ c.to = t /\ c.event = q.event /\ c.user = q.user
    BY <1>2 DEF RequestRow
  <1>13. WellFormed(c) /\ Sound(c)'
    BY <1>2, <1>10, <1>12 DEF WellFormed, Sound
  <1> QED BY <1>4, <1>7, <1>9, <1>11, <1>13, Written

\* The pair is inserted unless the movement has one.
LEMMA InsertPairKeeps ==
  ASSUME Inductive, NEW r \in Request, InsertPair(r)
  PROVE  Inductive'
  <1>1. PICK q : q = request[r]
    OBVIOUS
  <1>2. q \in RequestRow /\ WellFormed(q) /\ Sound(q) /\ q.at = "insertPair"
    BY <1>1, InFlight DEF InsertPair
  <1> DEFINE c == [q EXCEPT !.at = "raiseDiscrepancy"]
  <1>3. \/ request' = [request EXCEPT ![r] = Idle]
        \/ request' = [request EXCEPT ![r] = c]
    BY <1>1 DEF InsertPair, Continue
  <1>4. /\ reconciliation' = [reconciliation EXCEPT ![q.movement] =
             IF @ = NoPair THEN [departure |-> q.event, return |-> q.row] ELSE @]
        /\ UNCHANGED <<movement, available, event, earlier, exception, attempt, fallback>>
    BY <1>1 DEF InsertPair
  <1>5. q.event \in Event /\ q.row \in Event /\ OutAndBack(q.movement, q.event, q.row)
    BY <1>2 DEF WellFormed, Sound
  <1>6. RowsTypeOK'
    <2>1. reconciliation' \in [Movement -> PairRow]
      BY <1>4, <1>5 DEF Inductive, TypeOK, RowsTypeOK, PairRow
    <2> QED BY <1>4, <2>1 DEF Inductive, TypeOK, RowsTypeOK
  <1>7. Keeps
    BY <1>4 DEF Keeps
  <1>8. \A m \in Movement :
          \/ reconciliation'[m] = reconciliation[m]
          \/ m = q.movement /\ reconciliation'[m] = [departure |-> q.event, return |-> q.row]
    BY <1>4 DEF Inductive, TypeOK, RowsTypeOK
  <1>9. RowsSound'
    BY <1>4, <1>5, <1>8 DEF Inductive, RowsSound
  <1>10. PairIsOutAndBack'
    BY <1>4, <1>5, <1>8 DEF Inductive, Safe, PairIsOutAndBack, OutAndBack
  <1>11. Safe'
    BY <1>4, <1>10 DEF Inductive, Safe, SeriousNeedsAnotherUser, ApproverIsNotRequester,
                       DecisionMatchesStatus, FallbackNeedsAnotherUser
  <1>12. c \in RequestRow
    BY <1>2 DEF RequestRow, Step
  <1>13. WellFormed(c) /\ Sound(c)'
    BY <1>2 DEF RequestRow, WellFormed, Sound
  <1> QED BY <1>3, <1>6, <1>7, <1>9, <1>11, <1>12, <1>13, IdleSound, IdleStaysSound, Written

\* An exception from a HIGH discrepancy takes a free row.
LEMMA RaiseDiscrepancyKeeps ==
  ASSUME Inductive, NEW r \in Request, RaiseDiscrepancy(r)
  PROVE  Inductive'
  <1>1. PICK q : q = request[r]
    OBVIOUS
  <1>2. q \in RequestRow /\ WellFormed(q) /\ Sound(q) /\ q.at = "raiseDiscrepancy"
    BY <1>1, InFlight DEF RaiseDiscrepancy
  <1>3. RowsTypeOK' /\ Keeps /\ RowsSound' /\ Safe'
    <2>1. CASE UNCHANGED exception
      <3>1. UNCHANGED rows
        BY <2>1 DEF RaiseDiscrepancy, rows
      <3> QED BY <3>1, Still
    <2>2. ASSUME NEW x \in Exception, exception[x] = NoException,
                 exception' = [exception EXCEPT ![x] =
                   RaisedException(q.row, q.user, TRUE, FALSE)]
          PROVE  RowsTypeOK' /\ Keeps /\ RowsSound' /\ Safe'
      <3>1. q.row \in Event /\ q.user \in User
        BY <1>2 DEF WellFormed
      <3>2. /\ UNCHANGED <<movement, event, fallback, reconciliation>>
            /\ UNCHANGED <<available, earlier, attempt>>
        BY DEF RaiseDiscrepancy
      <3> QED BY <2>2, <3>1, <3>2, ExceptionInserted
    <2> QED BY <1>1, <2>1, <2>2 DEF RaiseDiscrepancy
  <1> DEFINE c == [q EXCEPT !.at = "raiseDiscrepancy"]
  <1>4. \/ request' = [request EXCEPT ![r] = Idle]
        \/ request' = [request EXCEPT ![r] = c]
    BY <1>1 DEF RaiseDiscrepancy, Continue, Finish
  <1>5. c \in RequestRow
    BY <1>2 DEF RequestRow, Step
  <1>6. WellFormed(c) /\ Sound(c)'
    BY <1>2 DEF RequestRow, WellFormed, Sound
  <1> QED BY <1>3, <1>4, <1>5, <1>6, IdleSound, IdleStaysSound, Written

================================================================================
