SPECIFICATION Spec
CONSTANTS
  AvgScale = 6
  Workers = {w1, w2}
  u1 = u1
  u2 = u2
  t1 = t1
  t2 = t2
  Users = {u1, u2}
  Tokens = {t1, t2}
  Fills <- RetriedFills
  OpeningBalance = 20
  OnePerUser = FALSE
  MaxAborts = 2
CHECK_DEADLOCK FALSE
INVARIANTS TypeOK CashHoldsWholeFills SharesHoldWholeFills
