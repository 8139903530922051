CONSTANTS
  e1 = e1
  e2 = e2
  r1 = r1
  r2 = r2
  j1 = j1
  Employees = {e1}
  Requests = {r1}
  Jobs = {}
  Amounts = {1, 2}
  Ops <- AllOps
  HasBank = {e1}
  Withheld = {}
  MaxSlips = 1
  MaxInFlight = 1
  NoSlip = NoSlip
  NoEmployee = NoEmployee
  Gone = Gone
SPECIFICATION Spec

PROPERTY SlipPaysReviewedAmount
CHECK_DEADLOCK FALSE
