CONSTANTS
  Customers = {u1}
  Carts = {1, 2}
  Orders = {1, 2}
  Products = {1, 2}
  Owner <- MCOwner
  InitialStock <- MCStock
  InitialPoints <- MCPoints
  Quantities = {1}
  PointAmounts = {0}
  MaxLine = 1
  MaxFaults = 1
  MaxOpen = 1
  Environments = {{}, {"edit"}, {"order"}}
SPECIFICATION Spec
INVARIANTS TypeOK CartOrderedOnce QuotedIsOrdered
PROPERTIES FailedGivesCartBack 
CHECK_DEADLOCK FALSE
