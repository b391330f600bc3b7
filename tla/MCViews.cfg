SPECIFICATION PartsSpec
CONSTANTS
  Parts = {"sidebar", "overview", "reports", "categories"}
  LastDay = 31
  None = None
INVARIANTS LayoutsAreWhole FiguresAddUp
CHECK_DEADLOCK FALSE
