SPECIFICATION Spec
CONSTANTS
  Runners = {r1, r2}
  Accounts = {a1, a2}
  Keys = {k1, k2}
  None = None
  MaxDay = 1
  MaxEdits = 1
  MaxCrashes = 1
  MaxOthers = 0
  LeaseOutlives = TRUE
SYMMETRY Symmetry
INVARIANTS
  TypeOK
  OneLiveClaim
  SnapshotImported
PROPERTIES
  DayPublished
