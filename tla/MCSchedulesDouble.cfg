CONSTANTS
  Parts = {"core"}
  Schedules = {1}
  Handlers = {h1}
  NoRow = NoRow
  NoLimit = NoLimit
  Configs <- MCConfigs
  Days <- MCDays
  Clock <- MCClock
  Ops = {"create", "post"}
  PostMonths = 1
  CatchUpCap = 2
  MaxHistory = 4
  Serial = FALSE
  Fails = {}
  Overlap = FALSE
  None = None
SPECIFICATION PartsSpec
INVARIANT OncePerOccurrence
CHECK_DEADLOCK FALSE
