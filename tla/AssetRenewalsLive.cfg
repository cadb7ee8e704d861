SPECIFICATION FairSpec
CONSTANTS
  Requests = {r1, r2}
  Assets = {a1, a2}
  Keys = {k1}
  Reminders = {}
  Dates <- MCOneDate
  Expectations = {NotSent}
  Periods = {1}
  Today <- MCToday
  MaxHistory = 2
  NoAsset = NoAsset
  NoKey = NoKey
  NoReminder = NoReminder
  NoExpiry = NoExpiry
  NotSent = NotSent
  NoRequest = NoRequest
PROPERTIES RetryIsHarmless EveryRequestEnds
CHECK_DEADLOCK FALSE
