SPECIFICATION FairSpec
CONSTANTS
  Returns = {r1, r2}
  Quantity = 3
  Price = 2
  Used = 4
  Earned = 2
  Paid = 2
  Tabs = {t1, t2}
  Fees = {1}
INVARIANTS
  TypeOK
  ReturnsWithinOrder
  SharesAddUp
  TossMatchesBooks
  CashSuffices
  RefundMovesOnce
PROPERTIES
  TossRefundIsBooked
CONSTRAINT OnlyPatchLapses
CHECK_DEADLOCK FALSE
