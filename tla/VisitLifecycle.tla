---------------------------- MODULE VisitLifecycle ----------------------------
(***************************************************************************)
(* What the gate workflow promises, without handlers or requests: a visit  *)
(* opens only for an approved movement with no other open visit, every     *)
(* status moves along its table, a movement gets under way only through a  *)
(* cleared entry, and is completed only through a completed exit.          *)
(***************************************************************************)
EXTENDS GateStates

CONSTANTS Movement, Event, None

VARIABLES
  authorisation,   \* the status of each movement, "NONE" before it exists
  visit,           \* the status of each gate event, "NONE" before it exists
  owner,           \* the movement a gate event belongs to
  direction        \* "ENTRY" or "EXIT"

vars == <<authorisation, visit, owner, direction>>

Init ==
  /\ authorisation = [m \in Movement |-> "NONE"]
  /\ visit = [e \in Event |-> "NONE"]
  /\ owner = [e \in Event |-> None]
  /\ direction = [e \in Event |-> "NONE"]

OpenVisits(m) ==
  {e \in Event : owner[e] = m /\ visit[e] \notin ClosedStatus}

Through(m, d, statuses) ==
  \E e \in Event : owner[e] = m /\ direction[e] = d /\ visit[e] \in statuses

Authorise(m) ==
  \E to \in MovementStatus :
    /\ \/ authorisation[m] = "NONE" /\ to = "DRAFT"
       \/ <<authorisation[m], to>> \in MovementTransitions
    /\ to = "IN_PROGRESS" => Through(m, "ENTRY", {"CLEARED"})
    /\ to = "COMPLETED" => Through(m, "EXIT", {"COMPLETED"})
    /\ authorisation' = [authorisation EXCEPT ![m] = to]
    /\ UNCHANGED <<visit, owner, direction>>

OpenVisit(e) ==
  \E m \in Movement, d \in {"ENTRY", "EXIT"} :
    /\ visit[e] = "NONE"
    /\ authorisation[m] = "APPROVED"
    /\ OpenVisits(m) = {}
    /\ visit' = [visit EXCEPT ![e] = "EXPECTED"]
    /\ owner' = [owner EXCEPT ![e] = m]
    /\ direction' = [direction EXCEPT ![e] = d]
    /\ UNCHANGED authorisation

MoveVisit(e) ==
  \E to \in GateEventStatus :
    /\ <<visit[e], to>> \in GateEventTransitions
    /\ visit' = [visit EXCEPT ![e] = to]
    /\ UNCHANGED <<authorisation, owner, direction>>

Next ==
  \/ \E m \in Movement : Authorise(m)
  \/ \E e \in Event : OpenVisit(e) \/ MoveVisit(e)

Spec == Init /\ [][Next]_vars

================================================================================
