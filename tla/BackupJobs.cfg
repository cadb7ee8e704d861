SPECIFICATION OneOfEachSpec
CONSTANTS
  Clients = {c1, c2}
  MaxBackups = 2
  MaxSecond = 0
  Kinds = {"full", "category"}
  NoBackup = NoBackup
  Mixed = Mixed
INVARIANTS NothingLeftInTmp CompletedHasArchive
PROPERTIES EveryBackupSettles
CHECK_DEADLOCK FALSE
