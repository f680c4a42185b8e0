SPECIFICATION Spec
CONSTANTS
  Calls = {c1, c2, c3}
  Intents <- TwoForOneSignal
  Books <- FineBooks
  MaxRestarts = 1
  PriceTick = 5
  SizeTick = 2
  CashTick = 3
  FeeNum = 1
  FeeDen = 10
  None = None
SYMMETRY Symmetric
CHECK_DEADLOCK FALSE
INVARIANT OneOrderPerSignal
