SPECIFICATION FairSpec
CONSTANTS
  AvgScale = 6
  Workers = {w1, w2}
  u1 = u1
  u2 = u2
  t1 = t1
  t2 = t2
  Users = {u1, u2}
  Tokens = {t1, t2}
  Fills <- BookFills
  OpeningBalance = 20
  OnePerUser = TRUE
  MaxAborts = 0
INVARIANTS MoneyConserved AverageWithinFillPrices
PROPERTIES PnLOnlyWhenReducing LedgerSpec EveryFillSettles
CHECK_DEADLOCK FALSE
