SPECIFICATION ApprovedSpec
CONSTANTS
  Movement = {m1}
  Event = {e1, e2}
  Exception = {}
  Attempt = {}
  Fallback = {}
  User = {u1}
  Request = {r1, r2}
  None = None
  RateLimit = 1
  AllowSelfApprove = TRUE
  Serial = FALSE
  MayCrash = FALSE
  Operations <- RacePairOps
SYMMETRY Symmetry
CHECK_DEADLOCK FALSE
INVARIANTS OneOpenEventPerMovement

