SPECIFICATION Spec
CONSTANTS
  Clients = {c1}
  MaxBackups = 2
  MaxSecond = 1
  Kinds = {"full", "category"}
  NoBackup = NoBackup
  Mixed = Mixed
INVARIANTS TypeOK RegistryMatchesJobs
PROPERTIES EarlyCancelNeverCompletes
CHECK_DEADLOCK FALSE
