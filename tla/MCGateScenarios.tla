--------------------------- MODULE MCGateScenarios ---------------------------
(***************************************************************************)
(* The gate workflow from several starting points in one run: the scenario *)
(* is chosen with the initial state and names the handlers that are        *)
(* called, the users who call them and whether a process may die; it does  *)
(* not change afterwards.                                                  *)
(***************************************************************************)
EXTENDS MCGate

VARIABLE scenario

ScenarioOps ==
  [visits |-> VisitOps, journeys |-> JourneyOps,
   pairs |-> RacePairOps, checks |-> RaceCheckOps, identities |-> RaceIdentityOps]

\* A handler that does not compare its user with another one is called by one user.
Guard == CHOOSE u \in User : TRUE
ComparedOps == {"approveMovement", "raise", "resolve", "requestFallback", "resolveFallback"}
Caller(call) == call.op \in ComparedOps \/ call.user = Guard

Starts(r) ==
  request[r] = Idle /\ request'[r] # Idle =>
    /\ request'[r].op \in ScenarioOps[scenario]
    /\ Caller(request'[r])

Steps ==
  /\ \/ MovementNext
     \/ GateEventNext
     \/ IdentityNext
     \/ ExceptionNext
     \/ PairingNext
     \/ scenario \in {"visits", "checks"} /\ \E r \in Request : Crash(r)
  /\ \A r \in Request : Starts(r)
  /\ available' # available => "changeAvailability" \in ScenarioOps[scenario]
  /\ UNCHANGED scenario

-------------------------------------------------------------------------------
\* One request at a time, from an empty database.
SerialInit == Init /\ scenario \in {"visits", "journeys"}
SerialSpec == SerialInit /\ [][Steps]_<<vars, scenario>>
SerialOps == VisitOps \cup JourneyOps

\* Interleaved requests, each scenario from a later state.
\* (The movement's requester is always the same user, so the users are not symmetric.)
RaceInit ==
  /\ \/ scenario = "pairs" /\ Authorised("APPROVED") /\ NoVisit
     \/ scenario = "checks" /\ Authorised("SUBMITTED") /\ NoVisit
     \/ /\ scenario = "checks" /\ Authorised("APPROVED")
        /\ AtGate("VEHICLE_CHECKS_IN_PROGRESS", "VERIFIED", "ENTRY")
     \/ /\ scenario = "identities" /\ Authorised("APPROVED")
        /\ AtGate("IDENTITY_PENDING", "NONE", "EXIT")
  /\ Rest
  /\ \A m \in Movement : movement[m].requester = Guard
RaceSpec == RaceInit /\ [][Steps]_<<vars, scenario>>
RaceSymmetry == UNION {Permutations(Event), Permutations(Request), Permutations(Attempt)}
RaceOps == UNION {RacePairOps, RaceCheckOps, RaceIdentityOps}

\* The pairing follows the completion in another statement, so a process that dies
\* between them leaves the journey unpaired: stated where none dies.
JourneysArePaired == scenario = "journeys" => JourneyIsPaired

================================================================================
