SPECIFICATION PeopleSpec
CONSTANTS
  x1 = x1
  x2 = x2
  y1 = y1
  y2 = y2
  z1 = z1
  z2 = z2
  w1 = w1
  w2 = w2
CONSTRAINT PeopleSmall
SYMMETRY Symmetry
INVARIANTS
  LeaveKept
  ClaimsKept
  PayMastersAgree
  StaffKept
PROPERTIES
  NothingTakenBack
CHECK_DEADLOCK FALSE
