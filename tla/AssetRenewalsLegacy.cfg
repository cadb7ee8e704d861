SPECIFICATION Spec
CONSTANTS
  Requests = {r1, r2}
  Assets = {a1}
  Keys = {k1, k2}
  Reminders = {}
  Dates <- MCDates
  Expectations <- MCAllExpectations
  Periods = {1}
  Today <- MCToday
  MaxHistory = 2
  NoAsset = NoAsset
  NoKey = NoKey
  NoReminder = NoReminder
  NoExpiry = NoExpiry
  NotSent = NotSent
  NoRequest = NoRequest
PROPERTIES NothingSilentlyOverwritten
CHECK_DEADLOCK FALSE
