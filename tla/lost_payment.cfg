SPECIFICATION Spec
CONSTANTS
  Period = {p1}
  Invoice = {i1}
  Attempt = {a1}
  ProviderEvent = {e1}
  Proof = {}
  Request = {r1}
  None = None
  Serial = TRUE
  MayCrash = TRUE
  Operations <- WebhookOps
CHECK_DEADLOCK FALSE
INVARIANTS AcknowledgedIsBooked
