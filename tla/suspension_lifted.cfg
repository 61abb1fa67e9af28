SPECIFICATION Spec
CONSTANTS
  Period = {p1, p2}
  Invoice = {i1, i2}
  Attempt = {}
  ProviderEvent = {}
  Proof = {k1}
  Request = {r1}
  None = None
  Serial = TRUE
  MayCrash = FALSE
  Operations <- DunningOps
CHECK_DEADLOCK FALSE
PROPERTIES SuspensionLastsWhileOwing
