SPECIFICATION PartsFairSpec
CONSTANTS
  Parts = {"schedules"}
  Schedules = {1, 2}
  Handlers = {}
  NoRow = NoRow
  NoLimit = NoLimit
  Configs <- AutoPosted
  Days <- MCDays
  Clock <- MCClock
  Ops <- MCAccounts
  PostMonths = 1
  CatchUpCap = 2
  MaxHistory = 8
  Serial = FALSE
  Tabs = {t1, t2}
  None = None
PROPERTY EveryDueIsPosted
CHECK_DEADLOCK FALSE
