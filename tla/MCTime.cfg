SPECIFICATION TimeSpec
CONSTANTS
  x1 = x1
  x2 = x2
  y1 = y1
  y2 = y2
  z1 = z1
  z2 = z2
  w1 = w1
  w2 = w2
  boss = boss
  hr = hr
  deputy = deputy
CONSTRAINT TimeSmall
SYMMETRY Symmetry
INVARIANTS
  RequestsKept
  RosterKept
  DeviceKept
  MonthKept
  DayFigures
  MonthFigures
  ScreensAgree
PROPERTIES
  StepsStand
CHECK_DEADLOCK FALSE
