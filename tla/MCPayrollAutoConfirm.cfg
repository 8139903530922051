CONSTANTS
  e1 = e1
  e2 = e2
  r1 = r1
  r2 = r2
  j1 = j1
  Employees = {e1, e2}
  Requests = {r1}
  Jobs = {j1}
  Amounts = {1}
  Ops <- AutoOps
  HasBank = {e1}
  Withheld = {}
  MaxSlips = 1
  MaxInFlight = 2
  NoSlip = NoSlip
  NoEmployee = NoEmployee
  Gone = Gone
SPECIFICATION FairSpec

PROPERTY OverdueIsAnswered
CHECK_DEADLOCK FALSE
