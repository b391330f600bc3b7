CONSTANTS
  Parts = {"core", "walk", "page"}
  Schedules = {1}
  Handlers = {h1}
  NoRow = NoRow
  NoLimit = NoLimit
  Configs <- MCConfigs
  Days <- MCDays
  Clock <- MCClock
  Ops <- AllOps
  PostMonths = 1
  CatchUpCap = 2
  MaxHistory = 4
  Serial = TRUE
  Fails = {"save", "register"}
  Overlap = FALSE
  None = None
SPECIFICATION PartsSpec
INVARIANTS TypeOK SerialInv OncePerOccurrence NoGaps LimitKept StepsKeepTheCalendar ActsOnWhatIsShown
CHECK_DEADLOCK FALSE
