CONSTANTS
  Token = {t1}
  Session = {s1}
  Request = {r1}
  Publisher = {p1}
  None = None
  Life = 6
  Skew = 1
  TTL = 1
  Backoff = 1
  Latency = 1
  RedisFails = TRUE
  IdentityFails = FALSE
  MaxVersion = 1
  MaxTime = 6
SPECIFICATION Spec
SYMMETRY Symmetry
CHECK_DEADLOCK FALSE
INVARIANT
  EndedSessionIsSeen
