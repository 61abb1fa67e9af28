---------------------------- MODULE ScenarioProofs -----------------------------
(***************************************************************************)
(* The invariants of the gate for the scenarios that TLC checks: a serial  *)
(* scenario is a behaviour of the gate whose handlers are limited, and a   *)
(* racing one starts from a later state, which is one that the invariant   *)
(* of interleaved requests allows.                                         *)
(***************************************************************************)
EXTENDS MCGateScenarios, GateProofs

-------------------------------------------------------------------------------
\* The steps of a scenario are steps of the gate, and no request dies on a journey.
LEMMA StepsAreNext ==
  ASSUME [Steps]_<<vars, scenario>>
  PROVE  /\ [Next]_vars
         /\ UNCHANGED scenario
         /\ scenario = "journeys" => Living \/ UNCHANGED vars
  BY DEF Steps, Next, Living

\* A serial scenario is a behaviour of the gate.
LEMMA SerialIsSpec == SerialSpec => Spec
  <1>1. SerialInit => Init
    BY DEF SerialInit
  <1>2. [Steps]_<<vars, scenario>> => [Next]_vars
    BY StepsAreNext
  <1> QED BY <1>1, <1>2, PTL DEF SerialSpec, Spec

\* completeGateEvent and buildReconciliation, in the scenarios as they are checked: on a
\* journey, on which no process dies, the second leg is paired before the request returns.
THEOREM ScenarioJourneysArePaired == Serial => (SerialSpec => []JourneysArePaired)
  <1> SUFFICES ASSUME Serial PROVE SerialSpec => []JourneysArePaired
    OBVIOUS
  <1> DEFINE Paired == scenario = "journeys" => FirstLegs /\ PairedInTime
  <1>1. SerialInit => Paired
    <2>1. Init => \A m \in Movement : Legs(m) = {}
      BY DEF Init, Legs, ClearedLeg, NoEvent
    <2> QED BY <2>1 DEF SerialInit, FirstLegs, PairedInTime, Way
  <1>2. Inductive /\ OneAtATime /\ Paired /\ [Steps]_<<vars, scenario>> => Paired'
    <2> SUFFICES ASSUME Inductive, OneAtATime, Paired, [Steps]_<<vars, scenario>>,
                        scenario' = "journeys"
                 PROVE  FirstLegs' /\ PairedInTime'
      OBVIOUS
    <2>1. scenario = "journeys" /\ (Living \/ UNCHANGED vars)
      BY StepsAreNext
    <2> QED BY <2>1, NextPairs
  <1>3. Paired => JourneysArePaired
    BY DEF PairedInTime, JourneysArePaired, JourneyIsPaired, Quiescent, PairsSoon, Idle
  <1> QED BY <1>1, <1>2, <1>3, SerialIsSpec, AlwaysOneAtATime, PTL DEF SerialSpec

-------------------------------------------------------------------------------
\* The later states that the races start from satisfy the invariant of the gate.
LEMMA RaceInitInductive == RaceInit => Inductive
  <1> SUFFICES ASSUME RaceInit PROVE Inductive
    OBVIOUS
  <1>1. PICK status \in {"SUBMITTED", "APPROVED"} : Authorised(status)
    BY DEF RaceInit
  <1>2. PICK u \in User, v \in User :
          /\ u # v \/ AllowSelfApprove
          /\ movement = [m \in Movement |->
                          [status |-> status, requester |-> u,
                           approver |-> IF status = "APPROVED" THEN v ELSE None]]
    BY <1>1 DEF Authorised
  <1>3. /\ movement \in [Movement -> MovementRow]
        /\ ApproverIsNotRequester
    <2>1. PICK a \in User \cup {None} : a = IF status = "APPROVED" THEN v ELSE None
      OBVIOUS
    <2>2. movement = [m \in Movement |-> [status |-> status, requester |-> u, approver |-> a]]
      BY <1>2, <2>1
    <2>3. movement \in [Movement -> MovementRow]
      BY <2>2 DEF MovementRow, MovementStatus
    <2>4. ApproverIsNotRequester
      BY <1>2, <2>1, <2>2, NoneAssumption DEF ApproverIsNotRequester, Identifier
    <2> QED BY <2>3, <2>4
  <1>4. /\ event \in [Event -> EventRow]
        /\ \A e \in Event : /\ event[e].decision = "NONE"
                            /\ event[e].status \notin {"CLEARED", "DENIED", "COMPLETED"}
                            /\ event[e].identity # "MANUAL_FALLBACK_APPROVED"
    <2>1. NoEvent \in EventRow
      BY DEF NoEvent, EventRow
    <2>2. CASE NoVisit
      BY <2>1, <2>2 DEF NoVisit, NoEvent
    <2>3. ASSUME NEW s \in {"VEHICLE_CHECKS_IN_PROGRESS", "IDENTITY_PENDING"},
                 NEW i \in {"VERIFIED", "NONE"}, NEW d \in Direction, AtGate(s, i, d)
          PROVE  /\ event \in [Event -> EventRow]
                 /\ \A e \in Event : /\ event[e].decision = "NONE"
                                     /\ event[e].status \notin {"CLEARED", "DENIED", "COMPLETED"}
                                     /\ event[e].identity # "MANUAL_FALLBACK_APPROVED"
      <3>1. PICK m \in Movement, e \in Event : event = [f \in Event |-> IF f # e THEN NoEvent
              ELSE [NoEvent EXCEPT !.status = s, !.movement = m, !.direction = d,
                                   !.identity = i]]
        BY <2>3 DEF AtGate
      <3>2. PICK row : row = [NoEvent EXCEPT !.status = s, !.movement = m, !.direction = d,
                                             !.identity = i]
        OBVIOUS
      <3>3. event = [f \in Event |-> IF f # e THEN NoEvent ELSE row]
        BY <3>1, <3>2
      <3>4. /\ row \in EventRow /\ row.decision = "NONE" /\ row.status = s /\ row.identity = i
        BY <3>2 DEF NoEvent, EventRow, GateEventStatus, Identity
      <3> QED BY <2>1, <3>3, <3>4 DEF NoEvent
    <2> QED BY <2>2, <2>3 DEF RaceInit, Direction
  <1>5. TypeOK
    BY <1>3, <1>4, IdleSound DEF RaceInit, Rest, TypeOK, RowsTypeOK, ExceptionRow, AttemptRow,
       FallbackRow, PairRow, NoException, NoAttempt, NoFallback, NoPair
  <1> QED BY <1>3, <1>4, <1>5, IdleSound
          DEF RaceInit, Rest, Inductive, RowsSound, Safe, SeriousNeedsAnotherUser,
              DecisionMatchesStatus, FallbackNeedsAnotherUser, PairIsOutAndBack,
              NoException, NoFallback, NoPair

\* The separation of duties, the decisions and the pairs in the races as they are checked,
\* from movements and visits that serial requests have left in progress.
THEOREM RacesAreSafe ==
  RaceSpec => [](DecisionMatchesStatus /\ DecisionsTakeTwoUsers /\ PairIsOutAndBack)
  <1>1. Inductive /\ [Steps]_<<vars, scenario>> => Inductive'
    BY StepsAreNext, NextInductive
  <1>2. Inductive => DecisionMatchesStatus /\ DecisionsTakeTwoUsers /\ PairIsOutAndBack
    BY DEF Inductive, Safe, DecisionsTakeTwoUsers
  <1> QED BY <1>1, <1>2, RaceInitInductive, PTL DEF RaceSpec

\* The rate limit on verification attempts in the races, which start from no attempt.
THEOREM RacingAttemptsAreLimited ==
  IsFiniteSet(Request) /\ Request # {} => (RaceSpec => []AttemptsStayNearTheLimit)
  <1> SUFFICES ASSUME IsFiniteSet(Request), Request # {}
               PROVE  RaceSpec => []AttemptsStayNearTheLimit
    OBVIOUS
  <1> DEFINE Limited == Inductive /\ Alone /\ AttemptsCounted
             Crowded == Inductive /\ AttemptsCounted
  <1>1. RaceInit => Limited
    <2>1. RaceInit => Inductive
      BY RaceInitInductive
    <2>2. RaceInit => Alone /\ AttemptsCounted
      BY NothingCounted DEF RaceInit, Rest, Alone, Quiescent
    <2> QED BY <2>1, <2>2
  <1>2. CASE Serial
    <2>1. Limited /\ [Steps]_<<vars, scenario>> => Limited'
      BY <1>2, StepsAreNext, NextInductive, NextCounted, AloneKept
    <2>2. Limited => AttemptsStayNearTheLimit
      BY CountedAreLimited
    <2> QED BY <1>1, <2>1, <2>2, PTL DEF RaceSpec
  <1>3. CASE ~Serial
    <2>1. Crowded /\ [Steps]_<<vars, scenario>> => Crowded'
      BY <1>3, StepsAreNext, NextInductive, NextCounted
    <2>2. Crowded => AttemptsStayNearTheLimit
      BY CountedAreLimited
    <2> QED BY <1>1, <2>1, <2>2, PTL DEF RaceSpec
  <1> QED BY <1>2, <1>3

===============================================================================
