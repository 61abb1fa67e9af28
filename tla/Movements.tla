------------------------------- MODULE Movements -------------------------------
(***************************************************************************)
(* movement-repository.ts: the pre-gate life of a movement authorisation.  *)
(* Each function reads the row, checks the table of transitions against    *)
(* the status it read, and then updates the row by its id, whatever the    *)
(* status has become in between.                                           *)
(***************************************************************************)
EXTENDS GateData

others == <<event, earlier, exception, attempt, fallback, reconciliation>>

\* createMovement: the driver and the vehicle are read before the insert; a
\* suspended tenant's request is refused at once, like any other refusal.
CreateMovement(r) ==
  \E u \in User, m \in Movement :
    /\ available[m] = {"driver", "vehicle"}
    /\ Serve(r, [Call("createMovement", "insertMovement", u) EXCEPT !.movement = m])
    /\ UNCHANGED rows

InsertMovement(r) ==
  LET q == request[r] IN
  /\ q.at = "insertMovement"
  /\ movement' = [movement EXCEPT ![q.movement] =
                    IF @ = NoMovement
                    THEN [@ EXCEPT !.status = "DRAFT", !.requester = q.user]
                    ELSE @]
  /\ Finish(r)
  /\ UNCHANGED <<available, others>>

-------------------------------------------------------------------------------
\* transition(): findFirst and assertValidMovementTransition, the first half.
AskMovement(r, op, u, m, to) ==
  /\ <<movement[m].status, to>> \in MovementTransitions
  /\ Serve(r, [Call(op, "writeMovement", u) EXCEPT !.movement = m, !.to = to])
  /\ UNCHANGED rows

SubmitMovement(r) ==
  \E u \in User, m \in Movement : AskMovement(r, "submitMovement", u, m, "SUBMITTED")

\* The requester never changes, so this check and the status check of
\* transition() see what one read would.
ApproveMovement(r) ==
  \E u \in User, m \in Movement :
    /\ u # movement[m].requester \/ AllowSelfApprove
    /\ AskMovement(r, "approveMovement", u, m, "APPROVED")

RejectMovement(r) ==
  \E u \in User, m \in Movement : AskMovement(r, "rejectMovement", u, m, "REJECTED")

CancelMovement(r) ==
  \E u \in User, m \in Movement : AskMovement(r, "cancelMovement", u, m, "CANCELLED")

-------------------------------------------------------------------------------
\* startMovement and completeMovement are called by the gate only, after it has
\* read the movement once: transition() reads and checks it again.
StartOrCompleteMovement(r) ==
  LET q == request[r] IN
  /\ q.at = "checkMovement"
  /\ Continue(r, <<movement[q.movement].status, q.to>> \in MovementTransitions,
              "writeMovement")
  /\ UNCHANGED rows

\* transition(): the unconditional update by id.  A completing gate event goes
\* on to the pairing of its legs.
WriteMovement(r) ==
  LET q == request[r] IN
  /\ q.at = "writeMovement"
  /\ movement' = [movement EXCEPT ![q.movement] =
                    [@ EXCEPT !.status = q.to,
                              !.approver = IF q.to \in {"APPROVED", "REJECTED"}
                                           THEN q.user
                                           ELSE movement[q.movement].approver]]
  /\ Continue(r, q.op = "complete", "findPair")
  /\ UNCHANGED <<available, others>>

-------------------------------------------------------------------------------
\* setDriverStatus, setVehicleOperationalStatus, archiveDriver, archiveVehicle:
\* one update statement makes a driver or a vehicle available or unavailable.
ChangeAvailability(m) ==
  /\ "changeAvailability" \in Operations
  /\ Serial => Quiescent
  /\ \E one \in {"driver", "vehicle"} :
       \E s \in {available[m] \cup {one}, available[m] \ {one}} :
         available' = [available EXCEPT ![m] = s]
  /\ UNCHANGED <<movement, others, request>>

MovementNext ==
  \/ \E m \in Movement : ChangeAvailability(m)
  \/ \E r \in Request :
       \/ CreateMovement(r) \/ InsertMovement(r)
       \/ SubmitMovement(r) \/ ApproveMovement(r)
       \/ RejectMovement(r) \/ CancelMovement(r)
       \/ StartOrCompleteMovement(r) \/ WriteMovement(r)

================================================================================
