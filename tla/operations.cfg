SPECIFICATION MCSpec
CONSTANTS
  User = {u1, u2}
  Request = {r1, r2}
  None = None
  Key = {k1}
  Body = {b1, b2}
  MaxVersion = 2
  Removal = {d1, d2}
  Discrepancy = {x1, x2}
  Notice = {n1, n2}
  Queued = {n2}
  MaxAstray = 1
  Payment = {p1}
  Contact = {t1, t2}
  Violation = {v1, v2}
  Severe = {v2}
  MaxEpisodes = 4
  MaxStreak = 4
  MaxDay = 2
  Period = {1, 2}
  Cooldown = {0, 1}
  MaxRule = 2
  MaxEvents = 2
  Case = {c1, c2}
  Vehicle = {w1, w2}
  Tracker = {g1, g2}
  Mapping = {m1, m2, m3}
CHECK_DEADLOCK FALSE
INVARIANTS OperationsTypeOK TemplatesAreAccountable StatusFollowsDiscrepancies NoticesGoOutOnce OneEmailPerPayment EpisodesAreStreaks IndicatorsAreAccountable TrackersAreShown
PROPERTIES ImplementsOnceOnly ReceiptSettles NoticeSettles
