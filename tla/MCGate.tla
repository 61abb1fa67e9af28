-------------------------------- MODULE MCGate --------------------------------
(***************************************************************************)
(* Small instances of the gate workflow for TLC: each .cfg picks the       *)
(* handlers that are called and the sizes of the tables.                   *)
(***************************************************************************)
EXTENDS GateOperations, TLC

Authorise == {"createMovement", "submitMovement", "approveMovement"}
ToChecks == Authorise \cup {"start", "identityPending", "verify", "beginChecks"}
Decide == {"clear", "deny", "complete"}

\* Two visits of one movement, their decisions and the fleet.
VisitOps == ToChecks \cup Decide \cup
  {"rejectMovement", "cancelMovement", "changeAvailability", "cancel",
   "requestFallback", "resolveFallback", "manual"}

\* Out and back with the inspection, the exceptions and the pairing.
JourneyOps == ToChecks \cup Decide \cup
  {"inspect", "raise", "escalate", "resolve", "reconcile"}

(* Interleaved requests are checked from later states, each reached by one *)
(* request after another: a movement submitted or approved, and one whose  *)
(* vehicle is at a gate, in the identity check or in the vehicle checks.   *)
Authorised(status) ==
  \E u, v \in User :
    /\ u # v \/ AllowSelfApprove
    /\ movement = [m \in Movement |->
                    [status |-> status, requester |-> u,
                     approver |-> IF status = "APPROVED" THEN v ELSE None]]

AtGate(status, identity, d) ==
  \E m \in Movement :
    \E e \in Event : event = [f \in Event |-> IF f # e THEN NoEvent ELSE
                       [NoEvent EXCEPT !.status = status, !.movement = m,
                                       !.direction = d, !.identity = identity]]

Rest ==
  /\ available = [m \in Movement |-> {"driver", "vehicle"}]
  /\ earlier = [e \in Event |-> {}]
  /\ exception = [x \in Exception |-> NoException]
  /\ attempt = [k \in Attempt |-> NoAttempt]
  /\ fallback = [f \in Fallback |-> NoFallback]
  /\ reconciliation = [m \in Movement |-> NoPair]
  /\ request = [r \in Request |-> Idle]

NoVisit == event = [e \in Event |-> NoEvent]

ApprovedInit == Authorised("APPROVED") /\ NoVisit /\ Rest
ApprovedSpec == ApprovedInit /\ [][Next]_vars

\* Two visits of one movement racing to their pairing.
RacePairOps == {"start", "identityPending", "verify", "beginChecks", "clear", "complete",
                "reconcile", "reconcilePair"}
\* Approvals, exceptions and decisions racing on one visit.
RaceCheckOps == Decide \cup
  {"approveMovement", "rejectMovement", "cancelMovement", "raise", "escalate",
   "resolve", "cancel"}
\* Attempts racing with each other and with a fallback.
RaceIdentityOps == {"verify", "onDevice", "synthetic", "requestFallback", "resolveFallback", "manual"}

Symmetry == UNION {Permutations(Event), Permutations(Exception), Permutations(User),
                   Permutations(Request), Permutations(Attempt), Permutations(Fallback)}

================================================================================
