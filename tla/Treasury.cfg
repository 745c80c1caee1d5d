SPECIFICATION Spec
CONSTANTS
  Debts = {1, 2, 3}
  Rate <- Rates
  Payment <- Payments
  RateUnit = 4
  Savings = {fd1, fd2}
  Saved <- Amounts
  None = None
  fd1 = fd1
  fd2 = fd2
  Inputs <- PlanInputs
  MaxMonths = 3
  Mortgage = 3
  Books <- ProjectBooks
  Growth = 1
  Buffer = 1
  Horizon = 4
CHECK_DEADLOCK FALSE
INVARIANTS
  TypeOK
  PaymentsAddUp
  NetWorthExplained
  AffordableSolvent
