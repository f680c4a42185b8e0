SPECIFICATION Spec
CONSTANTS
  PriceTick = 5
  SizeTick = 2
  CashTick = 3
  FeeNum = 1
  FeeDen = 10
  None = None
  Config <- Limits
  Gates <- MovingGates
  Signals <- MovingSignals
  Worlds <- MovingWorlds
  MaxMoves = 3
CHECK_DEADLOCK FALSE
INVARIANTS TypeOK ApprovalWasJustified RejectionWasJustified
