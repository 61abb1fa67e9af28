SPECIFICATION Spec
CONSTANTS
  Movement = {m1}
  Event = {e1}
  Exception = {x1}
  Attempt = {}
  Fallback = {}
  User = {u1, u2}
  Request = {r1}
  None = None
  RateLimit = 1
  AllowSelfApprove = FALSE
  Serial = TRUE
  MayCrash = FALSE
  Operations <- JourneyOps
SYMMETRY Symmetry
CHECK_DEADLOCK FALSE
INVARIANTS BlockingOutcomeDenies

