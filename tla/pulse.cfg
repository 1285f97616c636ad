CONSTANTS
  Staff = {u1, u2}
  User = {u1, boss}
  Admin = {boss}
  Asker = {u1}
  Person = u1
  Login = {g1, g2}
  Handle = g1
  Main = main
  Topic = b1
  Branch = {b1, b2}
  Item = {i1}
  Pass = {p1, p2}
  Beat = p1
  Overlap = 2
  Delay = 1
  MaxBranches = 1
  MaxCommits = 2
  MaxTime = 4
  MaxAccountMoves = 2
  Page = {p2}
  Batch = 1
  TTL = 1
  Latency = 1
  MaxMoves = 2
  Caller = {u1}
  Office = {d1}
  Chief = boss
  Manager = h1
  Worker = {w1}
  Allowance = {0, 2}
  DefaultCap = 1
  MaxUsed = 2
  HeadOf <- MCHeadOf
  OfficesOf <- MCOfficesOf
  KeyRows <- MCKeyRows
  CapRows <- MCCapRows
  Repo = {c1}
  Request = {q1, q2}
  Cap = 3
  Estimates = {1, 2}
  Waits = {1}
  MaxWait = 1
  MaxRetries = 1
  MaxSections = 2
  MaxBilled = 10
  None = None
SPECIFICATION MCSpec
CHECK_DEADLOCK FALSE
INVARIANTS
  NothingBehindCursor
  SameRepositories
  QuotesWereReadable
  PlatformMoneyCapped
  SpendIsBounded
PROPERTIES
  CreditStays
  DropsWhoLeft
