SPECIFICATION Spec
CONSTANTS
  Returns = {r1, r2}
  Quantity = 3
  Price = 2
  Used = 2
  Earned = 2
  Paid = 6
  Tabs = {t1}
  Fees = {0}
INVARIANT ReturnedAtMostOrdered
CHECK_DEADLOCK FALSE
