SPECIFICATION PaySpec
CONSTANTS
  Day = 12
  Shifts = {}
  Policies = {}
  Bands = {}
  Holidays = {}
  Requests = {}
  Step = 1
  Grain = 1
  Leaves = {}
  Length = 2
  DayInputs <- MCDays
  Shift <- MCShift
  Policy <- Unapproved
  Band <- MCBand
  Hour = 2
  Brackets <- MCBrackets
  StandardDays = 2
  StandardHours = 4
  Rules <- MCRules
  Base = 400
  Rate = 20
  Percent = 10
INVARIANT OnlyApprovedLeavePays
CHECK_DEADLOCK FALSE
