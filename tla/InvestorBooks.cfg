SPECIFICATION Spec
CONSTANTS
  Writers = {w1, w2}
  Holdings = {h0, h1}
  NoHoldings = h0
  Deltas <- Amounts
  None = None
  MaxCash = 1
  MaxCrashes = 1
SYMMETRY Symmetry
INVARIANTS
  TypeOK
  BooksAgree
PROPERTIES
  MoneyFollowsBooks
