SPECIFICATION PartsFairSpec
CONSTANTS
  Parts = {"schedules", "notices", "settings"}
  Schedules = {1, 2}
  Handlers = {}
  NoRow = NoRow
  NoLimit = NoLimit
  Configs <- AutoPosted
  Days <- MCDays
  Clock <- MCClock
  Ops <- MCRows
  PostMonths = 1
  CatchUpCap = 2
  MaxHistory = 8
  Serial = FALSE
  Tabs = {t1, t2}
  None = None
PROPERTIES GoneForGood EveryDueIsPosted EveryMessageEnds EverySaveSettles TabsConverge
CHECK_DEADLOCK FALSE
