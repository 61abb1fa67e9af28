SPECIFICATION Spec
CONSTANTS
  Movement = {m1}
  Event = {e1, e2}
  Exception = {}
  Attempt = {}
  Fallback = {}
  User = {u1, u2}
  Request = {r1}
  None = None
  RateLimit = 1
  AllowSelfApprove = FALSE
  Serial = TRUE
  MayCrash = FALSE
  Operations <- VisitOps
SYMMETRY Symmetry
CHECK_DEADLOCK FALSE
INVARIANTS SecondLegMayStart

