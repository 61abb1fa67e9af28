------------------------------ MODULE GateStates ------------------------------
(***************************************************************************)
(* The two status vocabularies of the gate workflow and the tables of the  *)
(* status changes the code allows: the life of a gate event (a vehicle at  *)
(* a gate) and the life of the movement authorisation it belongs to.  The  *)
(* tables are sets of <<from, to>> pairs.                                  *)
(***************************************************************************)

GateEventStatus ==
  {"EXPECTED", "INSPECTION_STARTED", "IDENTITY_PENDING", "IDENTITY_VERIFIED",
   "VEHICLE_CHECKS_IN_PROGRESS", "EXCEPTION_RAISED", "SUPERVISOR_REVIEW",
   "CLEARED", "DENIED", "CANCELLED", "COMPLETED"}

GateEventTransitions ==
  UNION { {"EXPECTED"} \X {"INSPECTION_STARTED", "CANCELLED"},
          {"INSPECTION_STARTED"} \X {"IDENTITY_PENDING", "CANCELLED"},
          {"IDENTITY_PENDING"} \X
             {"IDENTITY_VERIFIED", "EXCEPTION_RAISED", "CANCELLED"},
          {"IDENTITY_VERIFIED"} \X {"VEHICLE_CHECKS_IN_PROGRESS", "CANCELLED"},
          {"VEHICLE_CHECKS_IN_PROGRESS"} \X
             {"EXCEPTION_RAISED", "CLEARED", "DENIED", "CANCELLED"},
          {"EXCEPTION_RAISED"} \X
             {"SUPERVISOR_REVIEW", "VEHICLE_CHECKS_IN_PROGRESS", "CANCELLED"},
          {"SUPERVISOR_REVIEW"} \X
             {"VEHICLE_CHECKS_IN_PROGRESS", "CLEARED", "DENIED", "CANCELLED"},
          {"CLEARED", "DENIED"} \X {"COMPLETED"} }

MovementStatus ==
  {"DRAFT", "SUBMITTED", "APPROVED", "REJECTED", "CANCELLED", "EXPIRED",
   "IN_PROGRESS", "COMPLETED"}

MovementTransitions ==
  UNION { {"DRAFT"} \X {"SUBMITTED", "CANCELLED"},
          {"SUBMITTED"} \X {"APPROVED", "REJECTED", "CANCELLED"},
          {"APPROVED"} \X {"IN_PROGRESS", "CANCELLED", "EXPIRED"},
          {"IN_PROGRESS"} \X {"COMPLETED", "CANCELLED"} }

\* The statuses findOpenGateEventForMovement passes over: the visit is closed.
ClosedStatus == {"CANCELLED", "COMPLETED"}

================================================================================
