CONSTANTS
  Parts = {"sync", "connect", "screens", "import"}
  Moves = {m1, m2}
  Exts = {e1, e2}
  Accounts = {a1}
  extOf <- AllOnOne
  amountOf <- OneAmount
  Ids = {1, 2, 3, 4}
  Free = Free
  Gone = Gone
  Overlap = 2
  Lookback = 9
  Window = 1
  SyncDays = {0, 2}
  PendingStatus = 1
  BookedStatus = 2
  Partial = TRUE
  Drift = 1
  MaxLag = 1
  e1 = e1
  e2 = e2
  Offset <- East
  None = None
  Serial = TRUE
  LastTick = 5
  MaxEdits = 2
  MaxAborts = 1
SPECIFICATION PartsSpec
INVARIANTS OneRowPerMovement RegisterHasWhatWasFetched NothingFallsOutOfTheWindow OneAutomaticSyncADay ConsentsAreTold ShownWasChosen ReviewIsOfWhatIsChosen
SYMMETRY Symmetry
CHECK_DEADLOCK FALSE
