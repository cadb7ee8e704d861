SPECIFICATION Spec
CONSTANTS
  Requests = {r1, r2}
  Portal = portal
  Trackers = {office, laptop}
  NoDevice = NoDevice
  Apps = {x, y}
  MaxBatch = 2
  Timeout = 0
  Tolerance = 0
  MaxTime = 1
  MaxSessions = 3
  MaxReports = 3
SYMMETRY Interchangeable
INVARIANTS OneActivePerDevice 
PROPERTIES EndedSessionsStayEnded 
CHECK_DEADLOCK FALSE
