SPECIFICATION StorySpec
CONSTANTS
  r1 = r1
  r2 = r2
  j1 = j1
  Sessions = {1, 2}
  Tickets = {1, 2}
  Requests = {r1, r2}
  Jobs = {j1}
  FreeFirstN = 1
  Purged = {}
  Ops = {"autoclose", "checkin", "waive", "penalise", "explain"}
  MaxInFlight = 2
CONSTRAINT Second
SYMMETRY Symmetry
INVARIANTS
  TypeOK
  OneTicketPerSession
  PenalisedIsDeducted
  DeductionIsCurrent
PROPERTIES
  NoDoubleOut
  StandsAlone
  ExplanationKept
CHECK_DEADLOCK FALSE
