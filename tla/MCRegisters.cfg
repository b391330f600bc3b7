CONSTANTS
  Accounts = {a1, a2}
  Ids = {i1, i2, i3}
  Handlers = {h1, h2}
  MaxBulk = 2
SPECIFICATION Spec
INVARIANTS NoOrphanLegs OnlyAskedGoes LedgerInv
SYMMETRY Symmetry
CHECK_DEADLOCK FALSE
