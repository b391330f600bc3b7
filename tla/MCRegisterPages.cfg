SPECIFICATION PartsSpec
CONSTANTS
  Parts = {"review", "page", "view", "entry", "transfer"}
  Imported <- RowsAtFirst
  Coming <- NewRows
  MailRefs = {"m1", "m2"}
  Links <- NoneOrOne
  Payees = {"p2"}
  Categories = {"k2"}
  Proposals <- Proposed
  Flags <- Unusual
  MaxCalls = 2
  MaxEdits = 2
  Overlap = FALSE
  None = None
INVARIANTS SheetHoldsTheWholeRecord ComingBackShowsTheSame QuietSheetHasNothingUnsaved SeededAfresh InboxKeeps
PROPERTY ChangesSpareTheRest
CHECK_DEADLOCK FALSE
