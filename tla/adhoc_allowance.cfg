CONSTANTS
  Request = {q1, q2}
  None = None
  Cap = 3
  Estimates = {1, 2}
  Waits = {1, 2}
  MaxWait = 2
  MaxRetries = 2
  MaxSections = 2
  MaxBilled = 5
SPECIFICATION Spec
CHECK_DEADLOCK FALSE
INVARIANT
  ReportWithinAllowance
