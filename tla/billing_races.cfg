SPECIFICATION RaceSpec
CONSTANTS
  Period = {p1}
  Invoice = {i1}
  Attempt = {a1}
  ProviderEvent = {e1, e2}
  Proof = {k1}
  Request = {r1, r2}
  None = None
  Serial = FALSE
  MayCrash = TRUE
  Operations <- RaceOps
CHECK_DEADLOCK FALSE
SYMMETRY Symmetry
INVARIANTS TypeOK PaidIsBooked BookedFromNotice AcceptedIsBooked
PROPERTIES OnlyActiveFallsPastDue
