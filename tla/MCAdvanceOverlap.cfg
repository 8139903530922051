CONSTANTS
  Advances = {1, 2}
  Deductions = {1, 2}
  Callers = {r1, r2}
  Days = {1}
  Sums = {1, 2}
  Eligibles = {0, 1}
  Quota = 1
  CutoffDay = 0
  Steps = 2
  Endpoints <- AllOps
  AtOnce = 2
SPECIFICATION AdvanceSpec
SYMMETRY RequestSymmetry
INVARIANTS AdvancesTyped OneLiveDeduction AmountsAgree ApprovedWithinAsked AllStepsSigned
PROPERTIES ApprovedStands
