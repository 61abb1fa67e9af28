SPECIFICATION FairSpec
CONSTANTS
  Period = {p1, p2}
  Invoice = {i1, i2}
  Attempt = {a1}
  ProviderEvent = {e1}
  Proof = {k1}
  Request = {r1}
  None = None
  Serial = TRUE
  MayCrash = FALSE
  Operations <- AllOps
CHECK_DEADLOCK FALSE
INVARIANTS SettledIsRestored
PROPERTIES SuspensionIsDue AnnouncedIsBooked ImplementsAccount
