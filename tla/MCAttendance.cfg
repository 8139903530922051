SPECIFICATION AttendanceSpec
CONSTANTS
  Shifts = {1, 2}
  Begins <- NightsStart
  Ends <- NightsEnd
  Cap = 20
  Times = {20, 32, 44}
  Punches = {1, 2, 3}
  Taps = {1, 2, 3}
  Callers = {r1, r2}
  LockedDays = {0}
  Stories <- AllStories
  AtOnce = 2
INVARIANTS TapsKept CurrentWhenQuiet AbsentHasNoIn
PROPERTY NeverUncounted
SYMMETRY Symmetry
CONSTRAINT TwoPunches
CHECK_DEADLOCK FALSE
