SPECIFICATION Spec
CONSTANTS
  Requests = {r1}
  MaxBackups = 2
PROPERTIES SafetyBackupCanRevert
CHECK_DEADLOCK FALSE
