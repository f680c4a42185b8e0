SPECIFICATION FairSpec
CONSTANTS
  PriceTick = 5
  SizeTick = 2
  CashTick = 3
  FeeNum = 1
  FeeDen = 10
  AvgScale = 1
  None = None
  Config <- Limits
  User = u
  Token = t
  Consumers = {w}
  MaxDeliveries = 3
  MaxRestarts = 1
  Scenarios <- Beginnings
INVARIANTS TypeOK PositionWithinCap NeverOverdrawn OrderedAgainOnlyUnrecorded FilledInFull
PROPERTY EverySignalSettles
CHECK_DEADLOCK FALSE
