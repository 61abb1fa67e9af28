-------------------------------- MODULE Pairing --------------------------------
(***************************************************************************)
(* reconciliation-repository.ts, buildReconciliation: pairing the departure*)
(* and return legs of a movement.  It runs at the end of completeGateEvent *)
(* and on demand.  The comparison of the readings is abstracted to whether *)
(* it finds a HIGH discrepancy.                                            *)
(***************************************************************************)
EXTENDS Exceptions

ClearedLeg(e) == event[e].status = "COMPLETED" /\ event[e].decision = "CLEARED"

Legs(m) == {e \in Event : ClearedLeg(e) /\ event[e].movement = m}

FirstOf(d, legs) == d \in legs /\ \A t \in legs \ {d} : d \in earlier[t]

\* (variant) the return leg without its test of the direction
LaterLegs(m, d) == Legs(m) \ {d}
OppositeLegs(m, d) == {t \in Legs(m) : event[t].direction # event[d].direction}

\* resolveCandidatePair: the first cleared leg of m, and the first later one of the
\* opposite direction (every other leg is later than the first).
CandidatePair(m, d, t) == FirstOf(d, Legs(m)) /\ FirstOf(t, OppositeLegs(m, d))

\* assertValidPair, on an explicitly named pair.
ValidPair(d, t) ==
  /\ d # t
  /\ ClearedLeg(d) /\ ClearedLeg(t)
  /\ event[d].movement = event[t].movement
  /\ event[d].direction # event[t].direction
  /\ d \in earlier[t]

\* POST /api/reconciliations, for a movement or for an explicit pair.
ReconcileMovement(r) ==
  \E u \in User, m \in Movement :
    /\ movement[m] # NoMovement
    /\ Serve(r, [Call("reconcile", "findPair", u) EXCEPT !.movement = m])
    /\ UNCHANGED rows

ReconcilePair(r) ==
  \E u \in User, d, t \in Event :
    /\ ValidPair(d, t)
    /\ reconciliation[event[d].movement] = NoPair
    /\ Serve(r, [Call("reconcilePair", "insertPair", u) EXCEPT
                   !.movement = event[d].movement, !.event = d, !.row = t])
    /\ UNCHANGED rows

\* The candidates, then the lookups by either leg: a movement has one row at most.
FindPair(r) ==
  LET m == request[r].movement IN
  /\ request[r].at = "findPair"
  /\ \/ \E d, t \in Event :
          /\ CandidatePair(m, d, t)
          /\ reconciliation[m] = NoPair
          /\ request' = [request EXCEPT ![r] =
                           [@ EXCEPT !.at = "insertPair", !.event = d, !.row = t]]
     \/ /\ reconciliation[m] # NoPair \/ \A d, t \in Event : ~CandidatePair(m, d, t)
        /\ Finish(r)
  /\ UNCHANGED rows

\* One transaction; the unique columns make the second insert throw.
InsertPair(r) ==
  LET q == request[r] IN
  /\ q.at = "insertPair"
  /\ \E high \in BOOLEAN :
       Continue(r, high /\ reconciliation[q.movement] = NoPair, "raiseDiscrepancy")
  /\ reconciliation' = [reconciliation EXCEPT ![q.movement] =
       IF @ = NoPair THEN [departure |-> q.event, return |-> q.row] ELSE @]
  /\ UNCHANGED <<movement, available, event, earlier, exception, attempt, fallback>>

\* Each HIGH discrepancy becomes a serious exception on the return leg, which is
\* already COMPLETED.
RaiseDiscrepancy(r) ==
  LET q == request[r] IN
  /\ q.at = "raiseDiscrepancy"
  /\ \/ \E x \in Exception, more \in BOOLEAN :
          /\ exception[x] = NoException
          /\ exception' = [exception EXCEPT ![x] =
                             RaisedException(q.row, q.user, TRUE, FALSE)]
          /\ Continue(r, more, "raiseDiscrepancy")
     \/ /\ \A x \in Exception : exception[x] # NoException
        /\ Finish(r)
        /\ UNCHANGED exception
  /\ UNCHANGED <<movement, available, event, earlier, attempt, fallback,
                 reconciliation>>

PairingNext ==
  \E r \in Request :
    \/ ReconcileMovement(r) \/ ReconcilePair(r)
    \/ FindPair(r) \/ InsertPair(r) \/ RaiseDiscrepancy(r)

================================================================================
