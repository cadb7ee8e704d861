SPECIFICATION Spec
CONSTANTS
  Requests = {r1, r2}
  MaxBackups = 2
SYMMETRY Interchangeable
INVARIANTS TypeOK SafetyFirst
CHECK_DEADLOCK FALSE
