CONSTANTS
  Parts = {"sync"}
  Moves = {m1, m2}
  Exts = {e1, e2}
  Accounts = {a1}
  extOf <- AllOnOne
  amountOf <- OneAmount
  Ids = {1, 2, 3, 4}
  Free = Free
  Gone = Gone
  Overlap = 2
  Lookback = 9
  Window = 1
  SyncDays = {0, 2}
  PendingStatus = 1
  BookedStatus = 2
  Partial = TRUE
  Drift = 1
  MaxLag = 1
  e1 = e1
  e2 = e2
  Offset <- East
  None = None
  Serial = FALSE
  LastTick = 2
  MaxEdits = 0
  MaxAborts = 0
SPECIFICATION PartsSpec
INVARIANT OneRowPerMovement
SYMMETRY Symmetry
CHECK_DEADLOCK FALSE
