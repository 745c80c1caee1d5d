SPECIFICATION Spec
CONSTANTS
  f1 = f1
  f2 = f2
  renewal = renewal
  mon = mon
  Forms = {f1, f2, renewal}
  Reference <- Refs
  Email <- Mails
  Day <- Dates
  Slots = {s1}
  Registry <- Known
  Calls = {c1, c2}
  None = None
  MaxAccounts = 2
  MaxAttempts = 2
  MaxFailures = 1
SYMMETRY Interchangeable
INVARIANTS
  TypeOK
  OneAccountPerAddress
  DoubleBookingSeen
  MailedOnce
  ToldOnce
PROPERTIES
  ClosedDaysTakeNothing
