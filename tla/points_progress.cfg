SPECIFICATION FairSpec
CONSTANTS
  Orders = {o1}
  MaxRows = 2
  Earlier <- MCEarlier
  Granted = 1
  MinUse = 1
  UseAmounts = {2}
  EarnAmounts = {2}
  Goods = 2
  Life = 1
  Window = 1
  MaxTime = 2
  Unlocked = {"notice", "profile"}
  MaxRefunded = 2
  Batches = {b1}
PROPERTIES OverdueExpires
CONSTRAINT BeforeLapse
CHECK_DEADLOCK FALSE
