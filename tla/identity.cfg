CONSTANTS
  Token = {t1}
  Session = {s1}
  Request = {r1, r2}
  Caller = r0
  Publisher = {p1}
  None = None
  Life = 3
  Skew = 0
  TTL = 2
  Backoff = 1
  Latency = 1
  RedisFails = TRUE
  IdentityFails = TRUE
  MaxVersion = 1
  MaxTime = 4
  Instance = {i1, i2}
  MaxKeys = 3
  PublishWait = 2
  RetireWait = 2
  Floor = 1
  DocumentTTL = 2
  TokenLife = 1
  User = {u1, u2}
  Address = {a1, a2}
  Link = {l0, l1, l2}
  Invite = l0
  Worker = {w0, w1, w2}
  Clerk = w0
  MaxLeaves = 1
  MaxTokenVersion = 1
SPECIFICATION MCSpec
SYMMETRY Symmetry
CHECK_DEADLOCK FALSE
INVARIANTS
  RefusesOnlyRevoked
  AcceptedIsFresh
  UncheckedNeedsFailure
  PublishedDies
  GoodTokensPass
  LinksWorkOnce
  DeletedNeverBelonged
PROPERTIES
  DeadLinksMoveNothing
