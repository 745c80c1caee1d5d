SPECIFICATION Spec
CONSTANTS
  Walk <- Channels
  Currencies = {usd}
  Deposits = {fd}
  Lots = {lot}
  Holdings <- Held
  Statements <- Usual
  Jobs = {j1}
  None = None
  MaxAmount = 2
  MaxStarts = 1
  MaxOthers = 1
CHECK_DEADLOCK FALSE
PROPERTIES
  TakesWin
