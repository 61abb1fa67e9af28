SPECIFICATION SerialSpec
CONSTANTS
  Movement = {m1}
  Event = {e1, e2}
  Exception = {x1}
  Attempt = {}
  Fallback = {f1}
  User = {u1, u2}
  Request = {r1}
  None = None
  RateLimit = 1
  AllowSelfApprove = FALSE
  Serial = TRUE
  MayCrash = TRUE
  Operations <- SerialOps
SYMMETRY RaceSymmetry
CHECK_DEADLOCK FALSE
INVARIANTS TypeOK UnderWayMeansEntered FailureIsRaised JourneysArePaired IdentityOrException
PROPERTIES ImplementsLifecycle LockedVehicleNotCleared
