SPECIFICATION SmallSpec
CONSTANTS
  Asset = {a1, a2}
  Deletion = {d1, d2}
  Case = {c1, c2}
  Link = {l1, l2}
  Finding = {f1, f2}
  User = {u1, u2}
  Request = {r1, r2}
  None = None
  Regimes <- DeathsAndFailures
SYMMETRY Symmetry
CHECK_DEADLOCK FALSE
INVARIANTS CertificateListsDeleted
