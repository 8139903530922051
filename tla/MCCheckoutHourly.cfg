SPECIFICATION HourlySpec
CONSTANTS
  r1 = r1
  r2 = r2
  j1 = j1
  Sessions = {1, 2}
  Tickets = {1, 2}
  Requests = {r1}
  Jobs = {j1}
  FreeFirstN = 1
  Purged = {2}
  Ops = {"autoclose", "extend", "explain", "close", "reopen"}
  MaxInFlight = 2
PROPERTIES
  ExpiredIsDecided
  ForgottenIsClosed
CHECK_DEADLOCK FALSE
