SPECIFICATION Spec
CONSTANTS
  Orders = {o1, o2}
  MaxRows = 2
  Earlier <- MCEarlier
  Granted = 1
  MinUse = 1
  UseAmounts = {2}
  EarnAmounts = {2}
  Goods = 1
  Life = 1
  Window = 1
  MaxTime = 2
  Unlocked = {}
  MaxRefunded = 2
  Batches = {b1, b2}
INVARIANTS
  TypeOK
  LedgerAgreesUnlessLapsed
  OwedWasUsed
  CheckedUnwindGoesThrough
PROPERTIES ExpiryIsLostInTwoWays
SYMMETRY Symmetry
CONSTRAINT BeforeLapse
CHECK_DEADLOCK FALSE
