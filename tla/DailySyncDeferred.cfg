SPECIFICATION Spec
CONSTANTS
  Runners = {r1}
  Accounts = {a1}
  Keys = {k1, k2}
  None = None
  MaxDay = 2
  MaxEdits = 1
  MaxCrashes = 1
  MaxOthers = 1
  LeaseOutlives = TRUE
PROPERTIES
  SnapshotWhole
