------------------------------- MODULE GateEvents ------------------------------
(***************************************************************************)
(* gate-event-repository.ts: starting a gate event, the decision on it and *)
(* its completion, with the calls into the movement's life.  Every status  *)
(* change goes through transitionGateEvent: read, check, then update by id.*)
(***************************************************************************)
EXTENDS Movements

Open(e) == event[e].status \notin ClosedStatus \cup {"NONE"}

Exists(e) == event[e] # NoEvent

\* (variant) startGateEvent without findOpenGateEventForMovement
StartAnotherGateEvent(r) ==
  \E u \in User, m \in Movement, d \in Direction :
    /\ movement[m] # NoMovement
    /\ Serve(r, [Call("start", "readAuthorisation", u) EXCEPT !.movement = m, !.arg = d])
    /\ UNCHANGED rows

\* startGateEvent, first statement: an open event of the movement is returned
\* unchanged, so only a request that finds none goes on.
StartGateEvent(r) ==
  \E u \in User, m \in Movement, d \in Direction :
    /\ movement[m] # NoMovement
    /\ \A e \in Event : Open(e) => event[e].movement # m
    /\ Serve(r, [Call("start", "readAuthorisation", u) EXCEPT !.movement = m, !.arg = d])
    /\ UNCHANGED rows

ReadAuthorisation(r) ==
  LET q == request[r] IN
  /\ q.at = "readAuthorisation"
  /\ Continue(r, movement[q.movement].status = "APPROVED", "readFleet")
  /\ UNCHANGED rows

ReadFleet(r) ==
  LET q == request[r] IN
  /\ q.at = "readFleet"
  /\ Continue(r, available[q.movement] = {"driver", "vehicle"}, "insertEvent")
  /\ UNCHANGED rows

\* The insert, then the transition to INSPECTION_STARTED.  The set Event bounds
\* the rows: with none left the request ends.
InsertGateEvent(r) ==
  LET q == request[r] IN
  /\ q.at = "insertEvent"
  /\ \/ \E e \in Event :
          /\ ~Exists(e)
          /\ event' = [event EXCEPT ![e] = [NoEvent EXCEPT !.status = "EXPECTED",
                                                           !.movement = q.movement,
                                                           !.direction = q.arg]]
          /\ request' = [request EXCEPT ![r] = [@ EXCEPT !.at = "checkEvent", !.event = e,
                                                         !.to = "INSPECTION_STARTED"]]
     \/ /\ \A e \in Event : Exists(e)
        /\ Finish(r)
        /\ UNCHANGED event
  /\ UNCHANGED <<movement, available, earlier, exception, attempt, fallback,
                 reconciliation>>

-------------------------------------------------------------------------------
\* The first half of transitionGateEvent as a handler's first statement ...
AskTransition(r, op, to) ==
  \E u \in User, e \in Event :
    /\ <<event[e].status, to>> \in GateEventTransitions
    /\ Serve(r, [Call(op, "writeEvent", u) EXCEPT !.event = e, !.to = to])
    /\ UNCHANGED rows

\* ... and inside a handler that has already run others.
CheckTransition(r) ==
  LET q == request[r] IN
  /\ q.at = "checkEvent"
  /\ Continue(r, <<event[q.event].status, q.to>> \in GateEventTransitions, "writeEvent")
  /\ UNCHANGED rows

\* (variant) a decision column that keeps the first decision
DecisionAfterFirst(to, decision) == IF decision = "NONE" /\ to \in {"CLEARED", "DENIED"}
                                    THEN to ELSE decision

\* The decision columns travel with the status CLEARED or DENIED in one update.
DecisionAfter(to, decision) == IF to \in {"CLEARED", "DENIED"} THEN to ELSE decision

(* What follows an update: clearing an ENTRY starts the movement;          *)
(* completing a cleared event (as read before the transition) completes    *)
(* the movement if it was an EXIT, and in any case goes on to the pairing. *)

\* (variant) clearGateEvent without its test of the direction
EntersEitherWay(q) == q.op = "clear"

Enters(q) == q.op = "clear" /\ event[q.event].direction = "ENTRY"

\* (variant) completeGateEvent pairing after an EXIT only
PairsOnExit(q) ==
  q.op = "complete" /\ q.seen = "CLEARED" /\ event[q.event].direction = "EXIT"

Pairs(q) == q.op = "complete" /\ q.seen = "CLEARED"
Leaves(q) == Pairs(q) /\ event[q.event].direction = "EXIT"

\* The second half: the update by id, with completedAt when the event completes.
WriteTransition(r) ==
  LET q == request[r] IN
  /\ q.at = "writeEvent"
  /\ event' = [event EXCEPT ![q.event] =
                 [@ EXCEPT !.status = q.to,
                           !.decision = DecisionAfter(q.to, event[q.event].decision)]]
  /\ earlier' = IF q.to # "COMPLETED" THEN earlier ELSE
                  [e \in Event |-> IF e = q.event
                     THEN {f \in Event \ {e} : event[f].status = "COMPLETED"}
                     ELSE earlier[e] \ {q.event}]
  /\ request' = [request EXCEPT ![r] =
       IF Enters(q) \/ Leaves(q)
       THEN [@ EXCEPT !.at = "readMovement", !.movement = event[q.event].movement,
                      !.to = IF Enters(q) THEN "IN_PROGRESS" ELSE "COMPLETED"]
       ELSE IF Pairs(q)
       THEN [@ EXCEPT !.at = "findPair", !.movement = event[q.event].movement]
       ELSE Idle]
  /\ UNCHANGED <<movement, available, exception, attempt, fallback, reconciliation>>

\* clearGateEvent reads the movement and starts it if it is APPROVED;
\* completeGateEvent completes it if it is IN_PROGRESS, then pairs the legs.
ReadMovement(r) ==
  LET q == request[r]
      wanted == IF q.op = "clear" THEN "APPROVED" ELSE "IN_PROGRESS"
  IN
  /\ q.at = "readMovement"
  /\ request' = [request EXCEPT ![r] =
       IF movement[q.movement].status = wanted THEN [@ EXCEPT !.at = "checkMovement"]
       ELSE IF q.op = "complete" THEN [@ EXCEPT !.at = "findPair"]
       ELSE Idle]
  /\ UNCHANGED rows

-------------------------------------------------------------------------------
MoveToIdentityPending(r) == AskTransition(r, "identityPending", "IDENTITY_PENDING")
BeginVehicleChecks(r) == AskTransition(r, "beginChecks", "VEHICLE_CHECKS_IN_PROGRESS")
EscalateException(r) == AskTransition(r, "escalate", "SUPERVISOR_REVIEW")
DenyGateEvent(r) == AskTransition(r, "deny", "DENIED")
CancelGateEvent(r) == AskTransition(r, "cancel", "CANCELLED")

\* (variant) clearGateEvent without its re-read of the vehicle
ClearUnchecked(r) ==
  \E u \in User, e \in Event :
    /\ Exists(e)
    /\ Serve(r, [Call("clear", "checkEvent", u) EXCEPT !.event = e, !.to = "CLEARED"])
    /\ UNCHANGED rows

\* clearGateEvent re-reads the vehicle only: not the driver, the movement, the
\* identity or the open exceptions.
ClearGateEvent(r) ==
  \E u \in User, e \in Event :
    /\ Exists(e)
    /\ "vehicle" \in available[event[e].movement]
    /\ Serve(r, [Call("clear", "checkEvent", u) EXCEPT !.event = e, !.to = "CLEARED"])
    /\ UNCHANGED rows

\* completeGateEvent reads the decision before it asks for the transition.
CompleteGateEvent(r) ==
  \E u \in User, e \in Event :
    /\ Exists(e)
    /\ Serve(r, [Call("complete", "checkEvent", u) EXCEPT
                   !.event = e, !.to = "COMPLETED", !.seen = event[e].decision])
    /\ UNCHANGED rows

GateEventNext ==
  \E r \in Request :
    \/ StartGateEvent(r) \/ ReadAuthorisation(r) \/ ReadFleet(r) \/ InsertGateEvent(r)
    \/ CheckTransition(r) \/ WriteTransition(r) \/ ReadMovement(r)
    \/ MoveToIdentityPending(r) \/ BeginVehicleChecks(r) \/ EscalateException(r)
    \/ DenyGateEvent(r) \/ CancelGateEvent(r) \/ ClearGateEvent(r)
    \/ CompleteGateEvent(r)

================================================================================
