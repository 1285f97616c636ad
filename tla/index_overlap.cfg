CONSTANTS
  shaOne = shaOne
  shaTwo = shaTwo
  Sha = {shaOne, shaTwo}
  Tree <- MCTree
  Price <- MCPrice
  Batch = 2
  Cap = 3
  Worker = {w1, w2}
  None = None
  MaxAsked = 2
  MaxCrashes = 0
SPECIFICATION Spec
CHECK_DEADLOCK FALSE
INVARIANT
  OneSnapshot
