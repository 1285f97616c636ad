CONSTANTS
  User = {u1, u2}
  Report = {r1, r2}
  Worker = {w1, w2}
  Dept = {d1, d2}
  Text = {t1, t2}
  Blank = Blank
  None = None
  Cap = 1
  MaxStamp = 4
  MaxPaid = 2
  MaxWasted = 1
  MaxCrashes = 1
SPECIFICATION MCSpec
SYMMETRY Symmetry
CHECK_DEADLOCK FALSE
PROPERTY
  TextFrozen
