SPECIFICATION FairSpec
CONSTANTS
  r1 = r1
  r2 = r2
  r3 = r3
  Requests = {r1, r2, r3}
  h1 = h1
  h2 = h2
  Handlers = {h1, h2}
  None = None
  Quota = 1
  MaxFaults = 1
  MaxReprocess = 1
INVARIANT GeneratedOnce
INVARIANT CitationsLive
INVARIANT QuotaOvershootBounded
PROPERTY AnswerStands
PROPERTY AnswerSettles
CHECK_DEADLOCK FALSE
