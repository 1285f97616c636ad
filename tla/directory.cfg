CONSTANTS
  User = {u1, u2, u3}
  Racer = u4
  Dept = {d1, d2}
  Team = {t1}
  Id = {m1, m2, m3}
  Worker = {w1, w2, w3}
  Clerk = w3
  None = None
  Keep = Keep
SPECIFICATION MCSpec
SYMMETRY Symmetry
CHECK_DEADLOCK FALSE
INVARIANTS
  LeadersQualify
  TeamOfOwnDept
  TokensCatchUp
  OneMembershipPerDept
PROPERTIES
  AdminRemains
