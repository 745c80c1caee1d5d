SPECIFICATION Spec
CONSTANTS
  Users = {u1}
  Scheduler = sched
  Pids = {p1, p2}
  Ids = {i1, i2, i3, i4}
  Bindings = {b1, b2}
  None = None
  MaxRequests = 1
  MaxEdits = 1
  MaxCrashes = 1
  OtherSaves = TRUE
SYMMETRY Symmetry
INVARIANTS
  TypeOK
  OwnIntent
  DataBelongs
  FullRequestKept
  FullRetryKept
PROPERTIES
  SaveIntoSelected
