SPECIFICATION FairSpec
CONSTANTS
  Runners = {r1}
  Accounts = {a1}
  Keys = {k1}
  None = None
  MaxDay = 2
  MaxEdits = 1
  MaxCrashes = 1
  MaxOthers = 1
  LeaseOutlives = TRUE
PROPERTIES
  LastDayCompletes
