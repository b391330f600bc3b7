SPECIFICATION PartsSpec
CONSTANTS
  Parts = {"rules", "accounts", "budget", "goals", "payees"}
  Devices = {1, 2}
  Names = {"ann", "bob"}
  First = "ann"
  Starts <- SignedIn
  Passwords = {1, 2}
  MaxTries = 1
  recoveryCodeCount = 2
  MaxCalls = 3
  MaxEdits = 2
  BudgetEdits = 1
  BudgetCalls = 1
  None = None
INVARIANTS RefToldOnce AccessIsKept SavedIsInForce
PROPERTY NothingGoesUnasked
CHECK_DEADLOCK FALSE
