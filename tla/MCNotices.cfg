CONSTANTS
  Parts = {"core", "addresses", "pages", "mails", "pattern"}
  Events = {"a", "b"}
  NoEvent = NoEvent
  KindOf <- MixedKinds
  RefOf <- MixedRefs
  Kinds = {"bank", "large"}
  GroupOf <- MixedGroup
  DefaultOn <- MixedOn
  Refs = {"r"}
  NoRef = "none"
  WalletEvents = {}
  Channels = {"push"}
  InApp = "inapp"
  Addressed = {}
  ViaInstallation = {}
  HourlyLimit = 1
  Backoffs = 1
  Callers = {p1}
  Hours = 3
  QuietSpan = {2}
  DigestHour = 1
  Ops = {"crash", "lose"}
  MaxRows = 3
  MaxFaults = 1
  MaxEdits = 0
  Overlap = FALSE
  None = None
SPECIFICATION PartsSpec
INVARIANTS QueueIsSound SendsWhereProven ReadsItsExamples TicksSettle
PROPERTIES ImplementsOutbox DigestKept
CHECK_DEADLOCK FALSE
