SPECIFICATION Spec
CONSTANTS
  Orders = {o1}
  MaxRows = 2
  Earlier <- MCEarlier
  Granted = 1
  MinUse = 1
  UseAmounts = {2}
  EarnAmounts = {2}
  Goods = 1
  Life = 1
  Window = 1
  MaxTime = 3
  Unlocked = {"notice"}
  MaxRefunded = 2
  Batches = {b1}
INVARIANT NoticeKeepsLedger
CHECK_DEADLOCK FALSE
