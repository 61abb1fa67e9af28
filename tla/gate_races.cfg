SPECIFICATION RaceSpec
CONSTANTS
  Movement = {m1}
  Event = {e1, e2}
  Exception = {x1}
  Attempt = {k1, k2, k3}
  Fallback = {f1}
  User = {u1, u2}
  Request = {r1, r2}
  None = None
  RateLimit = 1
  AllowSelfApprove = FALSE
  Serial = FALSE
  MayCrash = TRUE
  Operations <- RaceOps
SYMMETRY RaceSymmetry
CHECK_DEADLOCK FALSE
INVARIANTS PairIsOutAndBack DecisionMatchesStatus AttemptsStayNearTheLimit DecisionsTakeTwoUsers

