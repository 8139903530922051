CONSTANTS
  e1 = e1
  e2 = e2
  r1 = r1
  r2 = r2
  j1 = j1
  Employees = {e1, e2}
  Requests = {r1}
  Jobs = {}
  Amounts = {1}
  Ops <- AllOps
  HasBank = {e1, e2}
  Withheld = {}
  MaxSlips = 2
  MaxInFlight = 1
  NoSlip = NoSlip
  NoEmployee = NoEmployee
  Gone = Gone
SPECIFICATION Spec
SYMMETRY EmployeeSymmetry
PROPERTY ConfirmedSlipIsFinal
INVARIANTS LockedMeansConfirmed LastConfirmationLocks
CHECK_DEADLOCK FALSE
