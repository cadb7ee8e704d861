SPECIFICATION Spec
CONSTANTS
  Requests = {r1, r2}
  Assets = {a1}
  Keys = {k1, k2}
  Reminders = {m1}
  Dates <- MCDates
  Expectations <- MCDates
  Periods = {1}
  Today <- MCToday
  MaxHistory = 3
  NoAsset = NoAsset
  NoKey = NoKey
  NoReminder = NoReminder
  NoExpiry = NoExpiry
  NotSent = NotSent
  NoRequest = NoRequest
SYMMETRY Interchangeable
INVARIANTS TypeOK LockDiscipline AcceptedWritesStillFit HistoryExplainsExpiry
PROPERTIES RefinesBook ReminderClosesWithItsRenewal
CHECK_DEADLOCK FALSE
