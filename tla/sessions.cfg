CONSTANTS
  User = {u1}
  Token = {t1, t2, t3}
  Worker = {w1, w2}
  None = None
  MaxVersion = 1
  MaxClaims = 1
  MaxCrashes = 1
SPECIFICATION Spec
SYMMETRY Symmetry
CHECK_DEADLOCK FALSE
INVARIANTS
  RotationStaysInFamily
  NoFalseAlarm
  OneLiveWhenAlone
  SignedOutStaysOut
  BumpKills
  ClaimsCurrent
PROPERTIES
  EndedStaysEnded
