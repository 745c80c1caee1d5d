SPECIFICATION Spec
CONSTANTS
  Channels = {c1, c2}
  Home = c1
  Deposits = {d1}
  Lots = {l1}
  ShortLots = {}
  Requests = {q1}
  Fresh = Fresh
  Jobs = {j1, j2}
  Amounts = {1}
  Prices = {1}
  BrokerLots <- LongLots
  BrokerCash <- Debit
  None = None
  MaxUnits = 2
  MaxMoney = 2
  MaxRevision = 1
SYMMETRY Symmetry
INVARIANTS
  TypeOK
  BooksBalance
  DebtReported
  LotsAgree
