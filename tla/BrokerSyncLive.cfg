SPECIFICATION OrderedSpec
CONSTANTS
  Users = {u1}
  Scheduler = sched
  Pids = {p1}
  Ids = {1, 2, 3, 4}
  Bindings = {b1}
  None = None
  MaxRequests = 1
  MaxEdits = 1
  MaxCrashes = 1
  OtherSaves = FALSE
PROPERTIES
  RequestsDrain
  IntentsDrain
VIEW LiveView
