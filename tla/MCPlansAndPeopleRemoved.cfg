SPECIFICATION PartsSpec
CONSTANTS
  Parts = {"budget"}
  Devices = {1, 2}
  Names = {"ann", "bob"}
  First = "ann"
  Starts <- SignedIn
  Passwords = {1, 2}
  MaxTries = 1
  recoveryCodeCount = 2
  MaxCalls = 3
  MaxEdits = 2
  BudgetEdits = 2
  BudgetCalls = 2
  None = None
INVARIANT RemovedForEveryYear
CHECK_DEADLOCK FALSE
