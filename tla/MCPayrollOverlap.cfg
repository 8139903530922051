CONSTANTS
  e1 = e1
  e2 = e2
  r1 = r1
  r2 = r2
  j1 = j1
  Employees = {e1}
  Requests = {r1, r2}
  Jobs = {}
  Amounts = {1, 2}
  Ops <- SlipOps
  HasBank = {e1}
  Withheld = {}
  MaxSlips = 2
  MaxInFlight = 2
  NoSlip = NoSlip
  NoEmployee = NoEmployee
  Gone = Gone
SPECIFICATION Spec
SYMMETRY RequestSymmetry
INVARIANTS TypeOK OneLiveSlip
PROPERTY SlipPaysReviewedAmount
CHECK_DEADLOCK FALSE
